---- MODULE Spec2Model ----
(***************************************************************************)
(* Model of the AIOps operator path (agent/aiOps.py, ChatOpsClient) and of *)
(* the name-to-ID resolver and dispatcher (MCPserver/MCPserver.py).        *)
(* Strings are TLA+ strings; the Python string operations the code uses    *)
(* (lower, strip, replace, split, in, regex search) are computed character *)
(* by character.                                                           *)
(***************************************************************************)
EXTENDS Integers, Sequences, FiniteSets, TLC

VARIABLES
    instances,       \* the provider's inventory: instance ID -> [name, state]
    context_memory,  \* ChatOpsClient.context_memory
    req,             \* the request chat() handled last: its inputs and what it derived
    events,          \* what chat() did during that request, in order
    response,        \* what chat() returned for that request
    network,         \* the provider's networks: [vpcs, subnets], the IDs that exist
    requests,        \* how many requests chat() has handled
    rquery,          \* resolver: the identifier _resolve_id was called with
    rup,             \* resolver: whether describe_instances answered
    rresult,         \* resolver: what _resolve_id returned or raised
    cpu,             \* CloudWatch: instance ID -> latest CPUUtilization average,
                     \* in hundredths of a percent (_get_cpu_metric rounds to 2 places)
    webhook,         \* MonitorAgent.slack.webhook_url is set
    scans,           \* how many passes of _run_scan the monitoring loop has made
    inventory,       \* the lines of the listing the current pass read
    cursor,          \* _run_scan's for loop: the line it handles next, 0 outside a pass
    incidents,       \* the incidents the current pass handled, in order
    is_running,      \* MonitorAgent.is_running
    monitoring_thread, \* main.py's global: the thread created last, 0 for none
    threads,         \* the threads running start_monitoring: where each one is
    main,            \* where the operator's loop in main() is
    command          \* the command main() read last

vars == <<instances, context_memory, req, events, response, network, requests,
          rquery, rup, rresult, cpu, webhook, scans, inventory, cursor, incidents,
          is_running, monitoring_thread, threads, main, command>>

\* the state of the operator path, of the resolver runs and of the remediation loop
chatVars == <<context_memory, req, response, network, requests>>
resolverVars == <<rquery, rup, rresult>>
monitorVars == <<webhook, scans, inventory, cursor, incidents>>
loopVars == <<is_running, monitoring_thread, threads, main, command>>

\* how many monitoring threads the operator's commands create
MaxThreads == 2

\* how many ticks a monitoring thread makes
MaxTicks == 2

\* the seconds between two ticks (main() passes 30)
interval == 2

Threads == 1..MaxThreads

\* a thread that "auto on" has not created yet
NoThread == [pc |-> "idle", left |-> 0, ticks |-> 0, outcome |-> ""]

\* main() before the first command: no thread, MonitorAgent.is_running False
NoLoop ==
    /\ is_running = FALSE
    /\ monitoring_thread = 0
    /\ threads = [t \in Threads |-> NoThread]
    /\ main = "input"
    /\ command = ""

(***************************************************************************)
(* Bounds                                                                  *)
(***************************************************************************)
\* how many instances the resolver's inventory holds
MaxInstances == 3

(***************************************************************************)
(* Python values and string operations                                     *)
(***************************************************************************)
\* Python's None, as an argument value or a return value
None == "<None>"

LowerCase == "abcdefghijklmnopqrstuvwxyz"
Digits == "0123456789"

\* s[i] (1-based)
CharAt(s, i) == SubSeq(s, i, i)

\* c in s, for a single character c
HasChar(s, c) == \E i \in 1..Len(s) : CharAt(s, i) = c

\* str.lower() on one character
LowerChar(c) ==
    CASE c = "A" -> "a" [] c = "B" -> "b" [] c = "C" -> "c" [] c = "D" -> "d"
      [] c = "E" -> "e" [] c = "F" -> "f" [] c = "G" -> "g" [] c = "H" -> "h"
      [] c = "I" -> "i" [] c = "J" -> "j" [] c = "K" -> "k" [] c = "L" -> "l"
      [] c = "M" -> "m" [] c = "N" -> "n" [] c = "O" -> "o" [] c = "P" -> "p"
      [] c = "Q" -> "q" [] c = "R" -> "r" [] c = "S" -> "s" [] c = "T" -> "t"
      [] c = "U" -> "u" [] c = "V" -> "v" [] c = "W" -> "w" [] c = "X" -> "x"
      [] c = "Y" -> "y" [] c = "Z" -> "z" [] OTHER -> c

RECURSIVE Lower(_)
\* str.lower()
Lower(s) ==
    IF Len(s) = 0 THEN "" ELSE LowerChar(CharAt(s, 1)) \o Lower(SubSeq(s, 2, Len(s)))

RECURSIVE RemoveChars(_, _)
\* chained str.replace(c, "") for every character c of drop
RemoveChars(s, drop) ==
    IF Len(s) = 0 THEN ""
    ELSE (IF HasChar(drop, CharAt(s, 1)) THEN "" ELSE CharAt(s, 1))
             \o RemoveChars(SubSeq(s, 2, Len(s)), drop)

\* the characters str.strip() and str.split() treat as whitespace
IsSpace(c) == c = " " \/ c = "\t" \/ c = "\n"

\* str.strip()
Strip(s) ==
    IF \A i \in 1..Len(s) : IsSpace(CharAt(s, i)) THEN ""
    ELSE LET first == CHOOSE i \in 1..Len(s) :
                          /\ ~IsSpace(CharAt(s, i))
                          /\ \A j \in 1..(i - 1) : IsSpace(CharAt(s, j))
             last == CHOOSE i \in 1..Len(s) :
                          /\ ~IsSpace(CharAt(s, i))
                          /\ \A j \in (i + 1)..Len(s) : IsSpace(CharAt(s, j))
         IN  SubSeq(s, first, last)

\* sub in s
Contains(s, sub) ==
    \E i \in 0..(Len(s) - Len(sub)) : SubSeq(s, i + 1, i + Len(sub)) = sub

\* s.startswith(prefix)
StartsWith(s, prefix) ==
    Len(s) >= Len(prefix) /\ SubSeq(s, 1, Len(prefix)) = prefix

\* the code point order of the characters names are made of
CharOrder == " -0123456789ABCDEFGHIJKLMNOPQRSTUVWXYZ_abcdefghijklmnopqrstuvwxyz"

Ord(c) == CHOOSE i \in 1..Len(CharOrder) : CharAt(CharOrder, i) = c

RECURSIVE StrLess(_, _)
\* a < b on Python strings
StrLess(a, b) ==
    IF Len(b) = 0 THEN FALSE
    ELSE IF Len(a) = 0 THEN TRUE
    ELSE IF CharAt(a, 1) = CharAt(b, 1)
         THEN StrLess(SubSeq(a, 2, Len(a)), SubSeq(b, 2, Len(b)))
         ELSE Ord(CharAt(a, 1)) < Ord(CharAt(b, 1))

RECURSIVE Insert(_, _)
Insert(sorted, x) ==
    IF sorted = <<>> THEN <<x>>
    ELSE IF StrLess(x, Head(sorted)) THEN <<x>> \o sorted
    ELSE <<Head(sorted)>> \o Insert(Tail(sorted), x)

RECURSIVE Sorted(_)
\* sorted(names)
Sorted(names) ==
    IF names = <<>> THEN <<>> ELSE Insert(Sorted(Tail(names)), Head(names))

(***************************************************************************)
(* The provider's inventory                                                *)
(***************************************************************************)
\* instance IDs in the order describe_instances lists them
IdOrder ==
    << "i-0a1b2c3d4e5f60001", "i-0a1b2c3d4e5f60002",
       "i-0a1b2c3d4e5f60003", "i-0a1b2c3d4e5f60004" >>

\* a slot of the inventory that holds no instance
Absent == [name |-> "", state |-> "absent"]

\* the instance-state-name filter of _validate_instance_id, _search_exact, _search_partial
SearchStates == {"running", "stopped", "pending", "stopping"}

\* the instance-state-name filter of _get_available_instances
AvailableStates == {"running", "stopped"}

RECURSIVE Listing(_, _, _)
\* describe_instances(Filters=[instance-state-name in states]): the IDs, in order
Listing(inv, states, k) ==
    IF k > Len(IdOrder) THEN <<>>
    ELSE (IF IdOrder[k] \in DOMAIN inv /\ inv[IdOrder[k]].state \in states
          THEN <<IdOrder[k]>> ELSE <<>>) \o Listing(inv, states, k + 1)

\* the elements of a sequence
Range(seq) == {seq[i] : i \in 1..Len(seq)}

(***************************************************************************)
(* MCPServer: the resolver                                                 *)
(***************************************************************************)
\* a returned ID
Ok(id) == [ok |-> TRUE, id |-> id, err |-> "", ids |-> <<>>, names |-> <<>>]

\* a raised ValueError: which message, and the IDs and names the message lists
Err(kind, ids, names) ==
    [ok |-> FALSE, id |-> None, err |-> kind, ids |-> ids, names |-> names]

\* _clean_str: the stripped string, or the ValueError it raises
clean_str(s) ==
    IF s = None THEN Err("Input value is None", <<>>, <<>>)
    ELSE IF Strip(s) = "" THEN Err("Input value is empty", <<>>, <<>>)
    ELSE Ok(Strip(s))

\* name.lower().replace("-", "").replace("_", "").replace(" ", "")
NormalizeName(name) == RemoveChars(Lower(name), "-_ ")

validate_instance_id(instance_id, inv, up) ==
    IF up /\ instance_id \in Range(Listing(inv, SearchStates, 1))
    THEN Ok(instance_id)
    ELSE Err("Instance ID verification failed", <<>>, <<>>)

search_exact(name, inv, up) ==
    IF ~up THEN Err("exact search failed", <<>>, <<>>)
    ELSE LET IsMatch(i) == inv[i].name = name
             found == SelectSeq(Listing(inv, SearchStates, 1), IsMatch)
         IN  IF Len(found) = 0 THEN Err("No exact match", <<>>, <<>>)
             ELSE IF Len(found) = 1 THEN Ok(found[1])
             ELSE Err("Multiple instances use the same name", found, <<>>)

get_available_instances(inv, up) ==
    IF ~up THEN <<>>
    ELSE LET HasName(i) == inv[i].name # ""
             named == SelectSeq(Listing(inv, AvailableStates, 1), HasName)
             names == [k \in 1..Len(named) |-> inv[named[k]].name]
         IN  IF names # <<>> THEN Sorted(names) ELSE <<"(none)">>

\* _search_partial accepting only a name that contains the query
PartialMatch_OneWay(normalized_input, name_tag) ==
    /\ name_tag # ""
    /\ Contains(NormalizeName(name_tag), normalized_input)

\* the test of _search_partial on one instance's Name tag
PartialMatch(normalized_input, name_tag) ==
    /\ name_tag # ""
    /\ \/ Contains(NormalizeName(name_tag), normalized_input)
       \/ Contains(normalized_input, NormalizeName(name_tag))

search_partial(name, inv, up) ==
    IF ~up THEN Err("Partial match search failed", <<>>, <<>>)
    ELSE LET normalized_input == NormalizeName(name)
             IsMatch(i) == PartialMatch(normalized_input, inv[i].name)
             matching == SelectSeq(Listing(inv, SearchStates, 1), IsMatch)
         IN  IF Len(matching) = 0
             THEN Err("No Instances", <<>>, get_available_instances(inv, up))
             ELSE IF Len(matching) = 1 THEN Ok(matching[1])
             ELSE Err("Matching Multiple Instances", matching,
                      [k \in 1..Len(matching) |-> inv[matching[k]].name])

\* the identifier has the shape of a provider ID
IsIdShaped(identifier) == StartsWith(identifier, "i-") /\ Len(identifier) = 19

resolve_id(identifier, inv, up) ==
    LET cleaned == clean_str(identifier)
    IN  IF ~cleaned.ok THEN cleaned
        ELSE IF IsIdShaped(cleaned.id) THEN validate_instance_id(cleaned.id, inv, up)
        ELSE LET exact == search_exact(cleaned.id, inv, up)
             IN  IF exact.ok THEN exact ELSE search_partial(cleaned.id, inv, up)

\* _resolve_id has not been called
NotRun == Err("not run", <<>>, <<>>)

(***************************************************************************)
(* Python dicts with string keys and string values                         *)
(***************************************************************************)
EmptyDict == [k \in {} |-> None]

\* d.get(k)
Get(d, k) == IF k \in DOMAIN d THEN d[k] ELSE None

\* d.get(k, default)
GetOr(d, k, default) == IF k \in DOMAIN d THEN d[k] ELSE default

\* bool(v) for None and strings
Truthy(v) == v # None /\ v # ""

\* d[k] = v
Put(d, k, v) == [x \in DOMAIN d \cup {k} |-> IF x = k THEN v ELSE d[x]]

\* del d[k]
Remove(d, k) == [x \in DOMAIN d \ {k} |-> d[x]]

(***************************************************************************)
(* ChatOpsClient: patterns and text cleaning                               *)
(***************************************************************************)
IsLowerAlnum(c) == c # "" /\ (HasChar(LowerCase, c) \/ HasChar(Digits, c))

\* \w of a regular expression
IsWordChar(c) == c # "" /\ (IsLowerAlnum(c) \/ c = "_" \/ LowerChar(c) # c)

\* the end of the longest run of characters of class that starts at from
\* (from - 1 when text[from] is not of the class)
RunEnd(text, from, class) ==
    CHOOSE e \in (from - 1)..Len(text) :
        /\ \A j \in from..e : HasChar(class, CharAt(text, j))
        /\ e = Len(text) \/ ~HasChar(class, CharAt(text, e + 1))

\* INSTANCE_ID_PATTERN.search(text).group(1), or None: (i-[a-z0-9]+)
INSTANCE_ID_PATTERN(text) ==
    LET starts == {i \in 1..(Len(text) - 2) :
                      SubSeq(text, i, i + 1) = "i-" /\ IsLowerAlnum(CharAt(text, i + 2))}
    IN  IF starts = {} THEN None
        ELSE LET i == CHOOSE x \in starts : \A y \in starts : x <= y
             IN  SubSeq(text, i, RunEnd(text, i + 2, LowerCase \o Digits))

\* where a match of \b[tcmr][1-7][a-z]*\.[a-z]+\b that starts at i ends, or 0
TypeMatchEnd(text, i) ==
    IF /\ i = 1 \/ ~IsWordChar(CharAt(text, i - 1))
       /\ HasChar("tcmr", CharAt(text, i))
       /\ i + 1 <= Len(text) /\ HasChar("1234567", CharAt(text, i + 1))
    THEN LET dot == RunEnd(text, i + 2, LowerCase) + 1
             e == RunEnd(text, dot + 1, LowerCase)
         IN  IF /\ dot <= Len(text) /\ CharAt(text, dot) = "."
                /\ e > dot
                /\ e = Len(text) \/ ~IsWordChar(CharAt(text, e + 1))
             THEN e ELSE 0
    ELSE 0

\* INSTANCE_TYPE_PATTERN.search(text).group(0), or None
INSTANCE_TYPE_PATTERN(text) ==
    LET starts == {i \in 1..Len(text) : TypeMatchEnd(text, i) > 0}
    IN  IF starts = {} THEN None
        ELSE LET i == CHOOSE x \in starts : \A y \in starts : x <= y
             IN  SubSeq(text, i, TypeMatchEnd(text, i))

STOP_WORDS ==
    { "the", "a", "an", "start", "stop", "delete", "create", "launch", "make",
      "resize", "terminate", "remove", "instance", "server", "new", "named",
      "with", "type", "please", "can", "you", "will", "would", "should",
      "restart", "reboot", "check", "inventory" }

RECURSIVE Split(_)
\* str.split(): the whitespace-separated words
Split(s) ==
    LET t == Strip(s)
    IN  IF t = "" THEN <<>>
        ELSE LET e == CHOOSE x \in 1..Len(t) :
                          /\ \A j \in 1..x : ~IsSpace(CharAt(t, j))
                          /\ x = Len(t) \/ IsSpace(CharAt(t, x + 1))
             IN  <<SubSeq(t, 1, e)>> \o Split(SubSeq(t, e + 1, Len(t)))

RECURSIVE Join(_)
\* " ".join(words)
Join(words) ==
    IF words = <<>> THEN ""
    ELSE IF Len(words) = 1 THEN words[1]
    ELSE words[1] \o " " \o Join(Tail(words))

clean_text_for_extraction(text) ==
    LET clean == RemoveChars(Lower(text), ",'\"")
        NotStopWord(w) == w \notin STOP_WORDS
    IN  Strip(Join(SelectSeq(Split(clean), NotStopWord)))

(***************************************************************************)
(* ChatOpsClient: routing and intent extraction                            *)
(***************************************************************************)
CRITICAL_TOOLS == {"terminate_resource", "resize_instance"}

\* any(phrase in text for phrase in phrases)
AnyIn(text, phrases) == \E phrase \in phrases : Contains(text, phrase)

Intent(tool, args) == [tool |-> tool, args |-> args]

rule_based_routing(user_input) ==
    LET text == Lower(user_input)
        id == INSTANCE_ID_PATTERN(text)
    IN  IF AnyIn(text, {"cost difference", "cost comparison", "cost trend", "analyze cost"})
        THEN Intent("analyze_cost_trend", EmptyDict)
        ELSE IF AnyIn(text, {"resource usage", "resource optimization", "which instance uses"})
        THEN Intent("analyze_resource_usage", EmptyDict)
        ELSE IF AnyIn(text, {"high cpu", "cpu spike", "cpu usage", "heavy cpu"})
        THEN Intent("analyze_high_cpu", EmptyDict)
        ELSE IF /\ AnyIn(text, {"cost", "price", "billing", "bill"})
                /\ ~AnyIn(text, {"compare", "difference", "vs", "between"})
        THEN Intent("get_cost", EmptyDict)
        ELSE IF AnyIn(text, {"list instance", "show instance", "list all"})
        THEN Intent("list_instances", [status |-> "all"])
        ELSE IF Contains(text, "topology") /\ Contains(text, "generate")
        THEN Intent("generate_topology", EmptyDict)
        ELSE IF Contains(text, "start") /\ id # None
        THEN Intent("start_instances", [instance_id |-> id])
        ELSE IF Contains(text, "stop") /\ id # None
        THEN Intent("stop_instances", [instance_id |-> id])
        ELSE IF Contains(text, "reboot") /\ id # None
        THEN Intent("reboot_instances", [instance_id |-> id])
        ELSE IF Contains(text, "terminate") /\ id # None
        THEN Intent("terminate_resource", [instance_id |-> id])
        ELSE Intent(None, EmptyDict)

\* the model's text that holds no brace-delimited object that parses
NoJson == [parsed |-> FALSE, data |-> EmptyDict]

\* the model's text whose brace-delimited object parses to the dict data
Json(data) == [parsed |-> TRUE, data |-> data]

extract_flexible_intent(raw_response) ==
    IF raw_response.parsed
    THEN Intent(Get(raw_response.data, "tool"),
                GetOr(raw_response.data, "args", EmptyDict))
    ELSE Intent(None, EmptyDict)

(***************************************************************************)
(* ChatOpsClient: argument normalization, safety gate, context update      *)
(***************************************************************************)
\* the tools for which step 3 stores the cleaned text as the target
NameTargetTools ==
    { "stop_instances", "start_instances", "terminate_resource",
      "resize_instance", "create_snapshot", "get_metric" }

context_require_tools ==
    {"stop_instances", "start_instances", "reboot_instances", "terminate_resource"}

\* steps 1 to 3: what the request itself gives
LocalExtraction(user_input, tool, args) ==
    LET text == Lower(user_input)
        id == INSTANCE_ID_PATTERN(text)
        a1 == IF ~Truthy(Get(args, "instance_id")) /\ id # None
              THEN Put(args, "instance_id", id) ELSE args
        type == INSTANCE_TYPE_PATTERN(text)
        a2 == IF ~Truthy(Get(a1, "instance_type")) /\ type # None
              THEN Put(a1, "instance_type", type) ELSE a1
        cleaned == clean_text_for_extraction(text)
    IN  IF ~Truthy(Get(a2, "instance_id")) /\ ~Truthy(Get(a2, "name")) /\ cleaned # ""
        THEN IF tool = "create_instance" THEN Put(a2, "name", cleaned)
             ELSE IF tool \in NameTargetTools THEN Put(a2, "instance_id", cleaned)
             ELSE a2
        ELSE a2

\* step 4 applies: the instance ID of the context is injected
InjectsContext(tool, args, context) ==
    /\ ~Truthy(Get(args, "instance_id"))
    /\ Truthy(context.instance_id)
    /\ tool \in context_require_tools

\* steps 4 to 6, on the arguments as steps 1 to 3 left them
FinalizeFrom(tool, a3, context) ==
    LET a4 == IF InjectsContext(tool, a3, context)
              THEN Put(a3, "instance_id", context.instance_id) ELSE a3
        a5 == IF /\ Truthy(Get(a4, "instance_id"))
                 /\ \/ StartsWith(a4.instance_id, "i-12345")
                    \/ Contains(a4.instance_id, "abcde")
              THEN Put(a4, "instance_id", None) ELSE a4
        a6 == IF tool = "create_instance" /\ ~Truthy(Get(a5, "name"))
              THEN Put(a5, "name", "new-instance") ELSE a5
    IN  IF tool = "create_instance" /\ ~Truthy(Get(a6, "instance_type"))
        THEN Put(a6, "instance_type", "t2.micro") ELSE a6

finalize_args(user_input, tool, args, context) ==
    FinalizeFrom(tool, LocalExtraction(user_input, tool, args), context)

\* whether _check_safety asks the operator
AsksConfirmation(tool) == tool \in CRITICAL_TOOLS

\* a gate that takes every answer beginning with y as a yes
IsYes_prefix(answer) == StartsWith(Lower(Strip(answer)), "y")

\* confirm == "yes" after input(...).strip().lower()
IsYes(answer) == Lower(Strip(answer)) = "yes"

check_safety(tool, answer) == IF AsksConfirmation(tool) THEN IsYes(answer) ELSE TRUE

\* _update_internal_state also clearing the instance slot when the result is no success
update_internal_state_rollback(context, result) ==
    IF result.kind = "dict" /\ result.status = "success" /\ Truthy(result.resource_id)
    THEN IF result.type = "instance"
         THEN [context EXCEPT !.instance_id = result.resource_id]
         ELSE IF result.type = "vpc" THEN [context EXCEPT !.vpc_id = result.resource_id]
         ELSE IF result.type = "subnet"
         THEN [context EXCEPT !.subnet_id = result.resource_id]
         ELSE context
    ELSE [context EXCEPT !.instance_id = None]

\* _update_internal_state storing every created resource in the instance slot
update_internal_state_one_slot(context, result) ==
    IF result.kind = "dict" /\ result.status = "success" /\ Truthy(result.resource_id)
    THEN [context EXCEPT !.instance_id = result.resource_id]
    ELSE context

update_internal_state(context, result) ==
    IF result.kind = "dict" /\ result.status = "success" /\ Truthy(result.resource_id)
    THEN IF result.type = "instance"
         THEN [context EXCEPT !.instance_id = result.resource_id]
         ELSE IF result.type = "vpc" THEN [context EXCEPT !.vpc_id = result.resource_id]
         ELSE IF result.type = "subnet"
         THEN [context EXCEPT !.subnet_id = result.resource_id]
         ELSE context
    ELSE context

(***************************************************************************)
(* MCPServer: the dispatcher and the capabilities                          *)
(***************************************************************************)
\* a call of the provider's client (or of another collaborator) and its argument
Ev(op, arg) == [op |-> op, arg |-> arg]

\* a dict a capability returns
DictResult(status, msg, resource_id, type, instance_id) ==
    [kind |-> "dict", status |-> status, msg |-> msg, resource_id |-> resource_id,
     type |-> type, instance_id |-> instance_id]

\* a string a capability returns: which message, and the resolved ID it names
StrResult(msg, instance_id) ==
    [kind |-> "str", status |-> None, msg |-> msg, resource_id |-> None,
     type |-> None, instance_id |-> instance_id]

\* the dict call_tool returns when the capability raised
ErrorDict(msg) == DictResult("error", msg, None, None, None)

\* what a capability did: its result, the provider calls, the provider's state after
Done(result, calls, inv, net) ==
    [result |-> result, calls |-> calls, inv |-> inv, net |-> net]

\* the provider accepts a state change of this instance
CanMutate(id, inv, accept) ==
    accept /\ id \in DOMAIN inv /\ inv[id].state \in SearchStates

\* the keys of args whose value is a Python string ("params" holds a dict)
StrKeys(args) == {k \in DOMAIN args : args[k] # None /\ k # "params"}

\* _normalize_args, the loop over the items: every string value stripped
clean_values(args) ==
    [k \in DOMAIN args |-> IF k \in StrKeys(args) THEN Strip(args[k]) ELSE args[k]]

\* _normalize_args, the instance_id block: the resolved ID replaces the value
\* (target is what _resolve_id gave for it); a failure leaves the value
normalize_instance_id(n, target) ==
    IF Truthy(Get(n, "instance_id")) /\ target.ok
    THEN Put(n, "instance_id", target.id) ELSE n

\* _normalize_args, the name block: the resolved ID becomes instance_id and
\* name is deleted; a failure leaves name in place
normalize_name(n, target) ==
    IF Truthy(Get(n, "name")) /\ target.ok
    THEN Remove(Put(n, "instance_id", target.id), "name") ELSE n

\* the two blocks one after the other on the cleaned dict
normalize_targets(n, inv, up) ==
    LET ById(m) == normalize_instance_id(m, resolve_id(Get(m, "instance_id"), inv, up))
        ByName(m) == normalize_name(m, resolve_id(Get(m, "name"), inv, up))
    IN  ByName(ById(n))

\* _normalize_args: the normalized dict, or the ValueError of _clean_str
normalize_args(args, inv, up) ==
    IF \E k \in StrKeys(args) : Strip(args[k]) = ""
    THEN [ok |-> FALSE, args |-> args, err |-> "Input value is empty"]
    ELSE [ok |-> TRUE, args |-> normalize_targets(clean_values(args), inv, up),
          err |-> ""]

start_instances(instance_id, inv, net, accept) ==
    IF CanMutate(instance_id, inv, accept)
    THEN Done(DictResult("success", "start_instances", None, None, instance_id),
              <<Ev("ec2.start_instances", instance_id)>>,
              [inv EXCEPT ![instance_id].state = "running"], net)
    ELSE Done(DictResult("error", "provider error", None, None, None),
              <<Ev("ec2.start_instances", instance_id)>>, inv, net)

stop_instances(instance_id, inv, net, accept) ==
    IF CanMutate(instance_id, inv, accept)
    THEN Done(DictResult("success", "stop_instances", None, None, instance_id),
              <<Ev("ec2.stop_instances", instance_id)>>,
              [inv EXCEPT ![instance_id].state = "stopped"], net)
    ELSE Done(DictResult("error", "provider error", None, None, None),
              <<Ev("ec2.stop_instances", instance_id)>>, inv, net)

reboot_instances(instance_id, inv, net, accept) ==
    IF CanMutate(instance_id, inv, accept)
    THEN Done(DictResult("success", "reboot_instances", None, None, instance_id),
              <<Ev("ec2.reboot_instances", instance_id)>>, inv, net)
    ELSE Done(DictResult("error", "provider error", None, None, None),
              <<Ev("ec2.reboot_instances", instance_id)>>, inv, net)

\* terminate_resource once _resolve_id has returned or raised (tid)
terminate_resolved(tid, inv, net, accept) ==
    IF ~tid.ok THEN Done(ErrorDict(tid.err), <<>>, inv, net)
    ELSE IF CanMutate(tid.id, inv, accept)
    THEN Done(StrResult("Terminating instance", tid.id),
              <<Ev("ec2.terminate_instances", tid.id)>>,
              [inv EXCEPT ![tid.id].state = "terminated"], net)
    ELSE Done(ErrorDict("provider error"),
              <<Ev("ec2.terminate_instances", tid.id)>>, inv, net)

terminate_resource(identifier, inv, net, up, accept) ==
    terminate_resolved(resolve_id(identifier, inv, up), inv, net, accept)

\* resize_instance without the test of the state
resize_resolved_unchecked(tid, new_type, inv, net, accept) ==
    IF ~tid.ok THEN Done(ErrorDict(tid.err), <<>>, inv, net)
    ELSE IF CanMutate(tid.id, inv, accept) /\ Truthy(new_type)
    THEN Done(StrResult("Successfully resized", tid.id),
              <<Ev("ec2.modify_instance_attribute", tid.id)>>, inv, net)
    ELSE Done(StrResult("Error resizing instance", None),
              <<Ev("ec2.modify_instance_attribute", tid.id)>>, inv, net)

\* resize_instance once _resolve_id has returned or raised (tid)
resize_resolved(tid, new_type, inv, net, accept) ==
    IF ~tid.ok THEN Done(ErrorDict(tid.err), <<>>, inv, net)
    ELSE IF inv[tid.id].state # "stopped"
    THEN Done(StrResult("Error : Instance must be stopped to resize", None),
              <<>>, inv, net)
    ELSE IF CanMutate(tid.id, inv, accept) /\ Truthy(new_type)
    THEN Done(StrResult("Successfully resized", tid.id),
              <<Ev("ec2.modify_instance_attribute", tid.id)>>, inv, net)
    ELSE Done(StrResult("Error resizing instance", None),
              <<Ev("ec2.modify_instance_attribute", tid.id)>>, inv, net)

resize_instance(identifier, new_type, inv, net, up, accept) ==
    resize_resolved(resolve_id(identifier, inv, up), new_type, inv, net, accept)

\* create_snapshot once _resolve_id has returned or raised (tid)
snapshot_resolved(tid, inv, net) ==
    IF ~tid.ok THEN Done(ErrorDict(tid.err), <<>>, inv, net)
    ELSE Done(StrResult("Snapshot Started", tid.id), <<>>, inv, net)

create_snapshot(identifier, inv, net, up) ==
    snapshot_resolved(resolve_id(identifier, inv, up), inv, net)

\* get_metric once _resolve_id has returned or raised (tid)
metric_resolved(tid, inv, net) ==
    IF ~tid.ok THEN Done(ErrorDict(tid.err), <<>>, inv, net)
    ELSE Done(StrResult("metric", tid.id), <<>>, inv, net)

get_metric(identifier, inv, net, up) ==
    metric_resolved(resolve_id(identifier, inv, up), inv, net)

logs_resolved(tid, inv, net) ==
    IF ~tid.ok THEN Done(StrResult("Error fetching logs", None), <<>>, inv, net)
    ELSE Done(StrResult("Recent logs", tid.id), <<>>, inv, net)

get_recent_logs(instance_id, inv, net, up) ==
    logs_resolved(resolve_id(instance_id, inv, up), inv, net)

list_instances(inv, net, up) ==
    Done(StrResult(IF up THEN "instance list" ELSE "Error: provider error", None),
         <<>>, inv, net)

get_cost(inv, net, up) ==
    Done(StrResult(IF up THEN "This Month's Estimated Cost" ELSE "Cost Error", None),
         <<>>, inv, net)

generate_topology(inv, net) == Done(StrResult("Topology", None), <<>>, inv, net)

\* the IDs the provider gives to the networks and subnets it creates
VpcId == "vpc-0a1b2c3d4e5f60001"
SubnetId == "subnet-0a1b2c3d4e5f60001"
DefaultSubnetId == "subnet-0default000000001"

create_vpc(cidr, inv, net, accept) ==
    IF accept /\ VpcId \notin net.vpcs
    THEN Done(DictResult("success", "create_vpc", VpcId, "vpc", None),
              <<Ev("ec2.create_vpc", VpcId)>>,
              inv, [net EXCEPT !.vpcs = @ \cup {VpcId}])
    ELSE Done(ErrorDict("provider error"), <<Ev("ec2.create_vpc", None)>>, inv, net)

create_subnet(vpc_id, cidr, inv, net, accept) ==
    IF ~Truthy(vpc_id) THEN Done(StrResult("Error: VPC ID missing", None), <<>>, inv, net)
    ELSE IF ~Truthy(cidr)
    THEN Done(StrResult("Error: CIDR block missing", None), <<>>, inv, net)
    ELSE IF accept /\ vpc_id \in net.vpcs /\ SubnetId \notin net.subnets
    THEN Done(DictResult("success", "create_subnet", SubnetId, "subnet", None),
              <<Ev("ec2.create_subnet", SubnetId)>>,
              inv, [net EXCEPT !.subnets = @ \cup {SubnetId}])
    ELSE Done(StrResult("Error: provider error", None),
              <<Ev("ec2.create_subnet", None)>>, inv, net)

\* the inventory slots that hold no instance yet, in the provider's order
FreeSlots(inv) ==
    LET IsFree(i) == i \in DOMAIN inv /\ inv[i].state = "absent"
    IN  SelectSeq(IdOrder, IsFree)

create_instance(instance_type, subnet_id, name, inv, net, accept) ==
    IF /\ accept
       /\ FreeSlots(inv) # <<>>
       /\ subnet_id \in net.subnets \cup {DefaultSubnetId}
    THEN LET instance_id == FreeSlots(inv)[1]
         IN  Done(DictResult("success", "create_instance", instance_id, "instance", None),
                  <<Ev("ec2.run_instances", instance_id)>>,
                  [inv EXCEPT ![instance_id] = [name |-> name, state |-> "running"]],
                  net)
    ELSE Done(ErrorDict("provider error"), <<Ev("ec2.run_instances", None)>>, inv, net)

handle_create_instance(args, inv, net, up, accept) ==
    IF ~clean_str(Get(args, "image_id")).ok
    THEN Done(ErrorDict(clean_str(Get(args, "image_id")).err), <<>>, inv, net)
    ELSE LET sub_id == IF Truthy(Get(args, "subnet_id")) THEN args.subnet_id
                       ELSE IF up THEN DefaultSubnetId ELSE None
         IN  IF ~Truthy(sub_id)
             THEN Done(StrResult("Error: No Subnet provided", None), <<>>, inv, net)
             ELSE create_instance(GetOr(args, "instance_type", "t2.nano"), sub_id,
                                  clean_str(GetOr(args, "name", "new-instance")).id,
                                  inv, net, accept)

\* execute_aws_action; args.params stands for {"InstanceIds": [args.params]}
execute_aws_action(args, inv, net, accept) ==
    LET action_name == Get(args, "action_name")
        id == Get(args, "params")
        ok == CanMutate(id, inv, accept)
        failed == StrResult("Error executing action", None)
    IN  IF ~Truthy(id)
        THEN Done(StrResult("Error: No valid instance IDs provided", None), <<>>, inv, net)
        ELSE IF action_name = "start_instances"
        THEN Done(IF ok THEN StrResult("Started instances", id) ELSE failed,
                  <<Ev("ec2.start_instances", id)>>,
                  IF ok THEN [inv EXCEPT ![id].state = "running"] ELSE inv, net)
        ELSE IF action_name = "stop_instances"
        THEN Done(IF ok THEN StrResult("Stopped instances", id) ELSE failed,
                  <<Ev("ec2.stop_instances", id)>>,
                  IF ok THEN [inv EXCEPT ![id].state = "stopped"] ELSE inv, net)
        ELSE IF action_name = "reboot_instances"
        THEN Done(IF ok THEN StrResult("Rebooted instances", id) ELSE failed,
                  <<Ev("ec2.reboot_instances", id)>>, inv, net)
        ELSE Done(StrResult("Unknown action", None), <<>>, inv, net)

\* call_tool after _normalize_args: the handler of tool_name runs on the
\* normalized arguments n
dispatch(tool_name, n, inv, net, up, accept) ==
    CASE tool_name = "create_vpc" -> create_vpc(Get(n, "cidr"), inv, net, accept)
      [] tool_name = "create_subnet" ->
           create_subnet(Get(n, "vpc_id"),
                         IF Truthy(Get(n, "cidr")) THEN n.cidr
                         ELSE Get(n, "cidr_block"),
                         inv, net, accept)
      [] tool_name = "create_instance" ->
           handle_create_instance(n, inv, net, up, accept)
      [] tool_name = "list_instances" -> list_instances(inv, net, up)
      [] tool_name = "start_instances" ->
           start_instances(Get(n, "instance_id"), inv, net, accept)
      [] tool_name = "stop_instances" ->
           stop_instances(Get(n, "instance_id"), inv, net, accept)
      [] tool_name = "reboot_instances" ->
           reboot_instances(Get(n, "instance_id"), inv, net, accept)
      [] tool_name = "terminate_resource" ->
           terminate_resource(Get(n, "instance_id"), inv, net, up, accept)
      [] tool_name = "create_snapshot" ->
           create_snapshot(Get(n, "instance_id"), inv, net, up)
      [] tool_name = "resize_instance" ->
           resize_instance(Get(n, "instance_id"), Get(n, "instance_type"),
                           inv, net, up, accept)
      [] tool_name = "get_metric" ->
           get_metric(Get(n, "instance_id"), inv, net, up)
      [] tool_name = "get_recent_logs" ->
           get_recent_logs(Get(n, "id"), inv, net, up)
      [] tool_name = "get_cost" -> get_cost(inv, net, up)
      [] tool_name = "generate_topology" -> generate_topology(inv, net)
      [] tool_name = "execute_aws_action" ->
           execute_aws_action(n, inv, net, accept)
      [] OTHER -> Done(ErrorDict("unknown tool"), <<>>, inv, net)

\* call_tool once _normalize_args has returned or raised (normalized)
call_normalized(tool_name, normalized, inv, net, up, accept) ==
    IF ~normalized.ok THEN Done(ErrorDict(normalized.err), <<>>, inv, net)
    ELSE dispatch(tool_name, normalized.args, inv, net, up, accept)

call_tool(tool_name, args, inv, net, up, accept) ==
    call_normalized(tool_name, normalize_args(args, inv, up), inv, net, up, accept)

(***************************************************************************)
(* The inventory listing: list_instances writes it, the analysis agent and *)
(* the monitoring loop read it back line by line                           *)
(***************************************************************************)
UpperCase == "ABCDEFGHIJKLMNOPQRSTUVWXYZ"

\* the characters \w matches
WordChars == LowerCase \o UpperCase \o Digits \o "_"

RECURSIVE NatStr(_)
\* str(n) for an int n >= 0
NatStr(n) ==
    IF n < 10 THEN CharAt(Digits, n + 1)
    ELSE NatStr(n \div 10) \o CharAt(Digits, (n % 10) + 1)

\* str(x) for the float x = h / 100 that round(_, 2) returned: "81.0", "80.01"
FloatStr(h) ==
    NatStr(h \div 100) \o "." \o NatStr((h % 100) \div 10)
        \o (IF h % 10 = 0 THEN "" ELSE NatStr(h % 10))

\* int(s) for a string of digits
RECURSIVE ParseNat(_)
ParseNat(s) ==
    IF Len(s) = 0 THEN 0
    ELSE 10 * ParseNat(SubSeq(s, 1, Len(s) - 1))
             + ((CHOOSE d \in 1..10 : CharAt(Digits, d) = CharAt(s, Len(s))) - 1)

\* float(s) in hundredths, for digits with at most one point and two decimals
ParseFloat(s) ==
    LET dots == {i \in 1..Len(s) : CharAt(s, i) = "."}
    IN  IF dots = {} THEN 100 * ParseNat(s)
        ELSE LET dot == CHOOSE i \in dots : TRUE
                 frac == SubSeq(s, dot + 1, Len(s))
             IN  100 * ParseNat(SubSeq(s, 1, dot - 1))
                     + (IF Len(frac) = 1 THEN 10 * ParseNat(frac) ELSE ParseNat(frac))

RECURSIVE FindFrom(_, _, _)
\* where the first occurrence of sub at or after position i starts, 0 when there is none
FindFrom(text, sub, i) ==
    IF i + Len(sub) - 1 > Len(text) THEN 0
    ELSE IF SubSeq(text, i, i + Len(sub) - 1) = sub THEN i
    ELSE FindFrom(text, sub, i + 1)

\* text.find(sub) + 1
Find(text, sub) == FindFrom(text, sub, 1)

RECURSIVE Run(_, _, _)
\* the end of the longest run of characters of class that starts at from
\* (from - 1 when text[from] is not of the class): what a greedy [class]* consumes
Run(text, from, class) ==
    IF from <= Len(text) /\ HasChar(class, CharAt(text, from))
    THEN Run(text, from + 1, class) ELSE from - 1

\* one line of list_instances
instance_line(instance_id, name, state, cpu_val) ==
    "ID: " \o instance_id \o " | Name: " \o name \o " | State: " \o state
        \o " | CPU: " \o FloatStr(cpu_val) \o "%"

RECURSIVE list_lines(_, _, _, _)
\* list_instances(status): the lines, before "\n".join; an instance without a
\* Name tag is listed as Unknown, and only a running one has its CPU read
list_lines(inv, cw, status, k) ==
    IF k > Len(IdOrder) THEN <<>>
    ELSE (IF /\ IdOrder[k] \in DOMAIN inv
             /\ inv[IdOrder[k]].state # Absent.state
             /\ status = "all" \/ inv[IdOrder[k]].state \in {"running", "pending"}
          THEN <<instance_line(IdOrder[k],
                               IF inv[IdOrder[k]].name = "" THEN "Unknown"
                               ELSE inv[IdOrder[k]].name,
                               inv[IdOrder[k]].state,
                               IF inv[IdOrder[k]].state = "running"
                               THEN cw[IdOrder[k]] ELSE 0)>>
          ELSE <<>>) \o list_lines(inv, cw, status, k + 1)

\* what call_tool("list_instances", ...) returns, as the lines of the text
list_text(inv, cw, up, status) ==
    IF ~up THEN <<"Error: provider error">>
    ELSE IF list_lines(inv, cw, status, 1) = <<>> THEN <<"No instances found.">>
    ELSE list_lines(inv, cw, status, 1)

\* re.search(r"ID: (i-[\w]+)", line).group(1), or None
id_match(line) ==
    LET at == Find(line, "ID: i-")
    IN  IF at = 0 \/ Run(line, at + 6, WordChars) < at + 6 THEN None
        ELSE SubSeq(line, at + 4, Run(line, at + 6, WordChars))

\* re.search(r"Name: ([\w\-\s]+) \|", line).group(1), or None: the run after
\* "Name: " has to reach the " |" that closes the field
name_match(line) ==
    LET at == Find(line, "Name: ")
        e == Run(line, at + 6, WordChars \o "- \t\n")
    IN  IF at = 0 THEN None
        ELSE IF /\ e > at + 6 /\ e < Len(line)
                /\ CharAt(line, e) = " " /\ CharAt(line, e + 1) = "|"
        THEN SubSeq(line, at + 6, e - 1) ELSE None

\* re.search(r"State: (\w+)", line).group(1), or None
state_match(line) ==
    LET at == Find(line, "State: ")
    IN  IF at = 0 \/ Run(line, at + 7, WordChars) < at + 7 THEN None
        ELSE SubSeq(line, at + 7, Run(line, at + 7, WordChars))

\* re.search(r"CPU: ([\d\.]+)%", line).group(1), or None
cpu_match(line) ==
    LET at == Find(line, "CPU: ")
        e == Run(line, at + 5, Digits \o ".")
    IN  IF at = 0 \/ e < at + 5 \/ e = Len(line) \/ CharAt(line, e + 1) # "%" THEN None
        ELSE SubSeq(line, at + 5, e)

(***************************************************************************)
(* AnalysisAgent: the reports the fast path hands the request to           *)
(***************************************************************************)
\* analyze_high_cpu_instances(threshold=80.0), in hundredths
threshold == 8000

\* _parse_instance_line(line).get("cpu", 0)
parsed_cpu(line) == IF cpu_match(line) = None THEN 0 ELSE ParseFloat(cpu_match(line))

\* analyze_cost_trend: two periods fetched, then the model writes the analysis
analyze_cost_trend ==
    << Ev("get_cost_by_date", "current"), Ev("get_cost_by_date", "previous"),
       Ev("llm.invoke", "analyze_cost_trend") >>

\* analyze_resource_usage: the model is asked when the listing has a row
analyze_resource_usage(lines) ==
    <<Ev("call_tool", "list_instances")>>
        \o (IF \E k \in 1..Len(lines) : /\ Contains(lines[k], "ID:")
                   /\ \/ id_match(lines[k]) # None \/ name_match(lines[k]) # None
                      \/ state_match(lines[k]) # None \/ cpu_match(lines[k]) # None
            THEN <<Ev("llm.invoke", "analyze_resource_usage")>> ELSE <<>>)

\* analyze_high_cpu_instances: the model is asked when a row is above the threshold
analyze_high_cpu_instances(lines) ==
    <<Ev("call_tool", "list_instances")>>
        \o (IF \E k \in 1..Len(lines) :
                   Contains(lines[k], "ID:") /\ parsed_cpu(lines[k]) > threshold
            THEN <<Ev("llm.invoke", "analyze_high_cpu")>> ELSE <<>>)

\* the report chat() returns for a request the fast path routed to the agent
analysis_agent(tool, lines) ==
    CASE tool = "analyze_cost_trend" -> analyze_cost_trend
      [] tool = "analyze_resource_usage" -> analyze_resource_usage(lines)
      [] tool = "analyze_high_cpu" -> analyze_high_cpu_instances(lines)

(***************************************************************************)
(* ChatOpsClient.chat: one operator request                                *)
(***************************************************************************)
AnalysisTools == {"analyze_cost_trend", "analyze_resource_usage", "analyze_high_cpu"}

\* what chat() returned: which of its return statements, and the capability's result
Response(label, result) == [label |-> label, result |-> result]

NoResult == StrResult("", None)

\* the part of chat() that reads only the request: routing, the model's intent
\* and steps 1 to 3 of _finalize_args
ParseRequest(user_input, raw_response) ==
    LET routed == rule_based_routing(user_input)
        use_llm == ~Truthy(routed.tool)
        extracted == extract_flexible_intent(raw_response)
        tool == IF use_llm THEN extracted.tool ELSE routed.tool
        raw_args == IF use_llm /\ Truthy(extracted.tool) THEN extracted.args
                    ELSE routed.args
    IN  [routed |-> routed.tool, use_llm |-> use_llm, tool |-> tool,
         raw_args |-> raw_args, raw |-> raw_response,
         local |-> IF Truthy(tool) THEN LocalExtraction(user_input, tool, raw_args)
                   ELSE EmptyDict]

\* the value of chat(): which return statement, the capability's result, the
\* context and the provider's state after, what happened on the way, and what
\* _finalize_args derived
Outcome(label, result, context, inv, net, done, parsed, finalized, args) ==
    [label |-> label, result |-> result, context |-> context, inv |-> inv,
     net |-> net, events |-> done, tool |-> parsed.tool, raw |-> parsed.raw,
     local |-> IF finalized THEN parsed.local ELSE EmptyDict,
     args |-> args, asked |-> finalized /\ AsksConfirmation(parsed.tool)]

\* the requests chat() makes before the capability: the model, then the operator
Asked(user_input, parsed, answer) ==
    (IF parsed.use_llm THEN <<Ev("llm.invoke", user_input)>> ELSE <<>>)
        \o (IF AsksConfirmation(parsed.tool) THEN <<Ev("confirm", answer)>> ELSE <<>>)

\* chat() from call_tool's return (done) to its own
chat_executed(user_input, parsed, answer, args, done, context) ==
    Outcome("executed", done.result, update_internal_state(context, done.result),
            done.inv, done.net,
            Asked(user_input, parsed, answer)
                \o <<Ev("call_tool", parsed.tool)>> \o done.calls,
            parsed, TRUE, args)

\* chat() from the return of _finalize_args (args) on
chat_finalized(user_input, parsed, answer, args, up, accept, context, inv, net) ==
    IF ~check_safety(parsed.tool, answer)
    THEN Outcome("aborted", NoResult, context, inv, net,
                 Asked(user_input, parsed, answer), parsed, TRUE, args)
    ELSE chat_executed(user_input, parsed, answer, args,
                       call_tool(parsed.tool, args, inv, net, up, accept), context)

\* chat(user_input) from the given context and provider state, where parsed is
\* ParseRequest of the request, the operator answers answer, and the provider
\* is reachable (up) and accepts changes (accept)
chat(user_input, parsed, answer, up, accept, context, inv, net, cw) ==
    IF parsed.routed \in AnalysisTools
    THEN Outcome("analysis", NoResult, context, inv, net,
                 analysis_agent(parsed.routed, list_text(inv, cw, up, "all")),
                 parsed, FALSE, EmptyDict)
    ELSE IF ~Truthy(parsed.tool)
    THEN Outcome("unrecognized", NoResult, context, inv, net,
                 IF parsed.use_llm THEN <<Ev("llm.invoke", user_input)>> ELSE <<>>,
                 parsed, FALSE, EmptyDict)
    ELSE chat_finalized(user_input, parsed, answer,
                        FinalizeFrom(parsed.tool, parsed.local, context),
                        up, accept, context, inv, net)

(***************************************************************************)
(* The operator path: requests, one after the other                        *)
(***************************************************************************)
\* how many instances the provider lets the operator create
MaxCreated == 1

\* how many requests the operator sends in one session
MaxRequests == 2

\* what the operator types
UserInputs ==
    { "Stop AIOpsmake",
      "please stop the instance",
      "Launch a t2.nano instance named bot",
      "stop i-0a1b2c3d4e5f60001",
      "terminate i-0a1b2c3d4e5f60001",
      "show cost",
      "cpu usage",
      "analyze cost",
      "list all",
      "generate topology" }

\* what the model answers: no object, or an object with a tool and arguments
LLMResponses ==
    { NoJson,
      Json([args |-> EmptyDict]),
      Json([tool |-> "drop_database", args |-> EmptyDict]),
      Json([action |-> "stop_instances", args |-> [instance_id |-> "AIOpsmake"]]),
      Json([tool |-> "stop_instances", args |-> [instance_id |-> "AIOpsmake"]]),
      Json([tool |-> "stop_instances", args |-> EmptyDict]),
      Json([tool |-> "stop_instances", args |-> [name |-> "ghost"]]),
      Json([tool |-> "start_instances", args |-> [instance_id |-> "AIOpsmake"]]),
      Json([tool |-> "reboot_instances", args |-> EmptyDict]),
      Json([tool |-> "terminate_resource", args |-> EmptyDict]),
      Json([tool |-> "resize_instance", args |-> [instance_type |-> "t3.large"]]),
      Json([tool |-> "create_instance", args |-> [image_id |-> "ami-0abc"]]),
      Json([tool |-> "create_instance", args |-> EmptyDict]),
      Json([tool |-> "create_vpc", args |-> [cidr |-> "10.20.0.0/16"]]),
      Json([tool |-> "create_subnet", args |-> [cidr |-> "10.20.1.0/24"]]),
      Json([tool |-> "create_subnet",
            args |-> [vpc_id |-> VpcId, cidr |-> "10.20.1.0/24"]]),
      Json([tool |-> "list_instances", args |-> [status |-> "all"]]),
      Json([tool |-> "execute_aws_action",
            args |-> [action_name |-> "stop_instances",
                      params |-> "i-0a1b2c3d4e5f60001"]]) }

\* what the operator answers when asked to confirm
Answers == {"yes", " YES ", "no", "y"}

\* the operator was not asked
NotAsked == "<not asked>"

\* the provider during a request: reachable or not, accepting changes or not
Environments ==
    { [up |-> TRUE, accept |-> TRUE], [up |-> TRUE, accept |-> FALSE],
      [up |-> FALSE, accept |-> FALSE] }

ChatIds == {IdOrder[k] : k \in 1..(1 + MaxCreated)}

\* what CloudWatch reports for an instance of the operator's session: 80.0 or 81.0
ChatReadings == {8000, 8100}

NoContext == [vpc_id |-> None, subnet_id |-> None, sg_id |-> None, instance_id |-> None]

NoRequest ==
    [user_input |-> "", raw |-> NoJson, tool |-> None, local |-> EmptyDict,
     args |-> EmptyDict, asked |-> FALSE, answer |-> NotAsked, before |-> NoContext]

Init ==
    /\ \E s \in {"running", "stopped"} :
          instances = [i \in ChatIds |->
                          IF i = IdOrder[1] THEN [name |-> "AIOpsmake", state |-> s]
                          ELSE Absent]
    /\ network = [vpcs |-> {}, subnets |-> {}]
    /\ context_memory = NoContext
    /\ req = NoRequest
    /\ events = <<>>
    /\ response = Response("", NoResult)
    /\ requests = 0
    /\ rquery = None
    /\ rup = TRUE
    /\ rresult = NotRun
    /\ cpu \in [ChatIds -> ChatReadings]
    /\ webhook = FALSE
    /\ scans = 0
    /\ inventory = <<>>
    /\ cursor = 0
    /\ incidents = <<>>
    /\ NoLoop

\* the requests: what the operator types and, when no fast-path rule matches,
\* what the model answers
Requests ==
    {<<u, NoJson>> : u \in {x \in UserInputs : Truthy(rule_based_routing(x).tool)}}
        \cup ({x \in UserInputs : ~Truthy(rule_based_routing(x).tool)} \X LLMResponses)

\* every request with what ParseRequest derives from it
ParsedRequests ==
    {[user_input |-> q[1], parsed |-> ParseRequest(q[1], q[2])] : q \in Requests}

\* chat() has returned out: the request, what happened and the new state
Returned(user_input, answer, out) ==
    /\ req' = [user_input |-> user_input, raw |-> out.raw, tool |-> out.tool,
               local |-> out.local,
               args |-> out.args, asked |-> out.asked, answer |-> answer,
               before |-> context_memory]
    /\ events' = out.events
    /\ response' = Response(out.label, out.result)
    /\ context_memory' = out.context
    /\ instances' = out.inv
    /\ network' = out.net

\* the operator sends one request and chat() handles it to its return
Chat ==
    /\ requests < MaxRequests
    /\ requests' = requests + 1
    /\ \E r \in ParsedRequests, env \in Environments :
         \E answer \in IF AsksConfirmation(r.parsed.tool) THEN Answers ELSE {NotAsked} :
            Returned(r.user_input, answer,
                     chat(r.user_input, r.parsed, answer, env.up, env.accept,
                          context_memory, instances, network, cpu))
    /\ UNCHANGED <<resolverVars, cpu, monitorVars, loopVars>>

Next == Chat

Spec == Init /\ [][Next]_vars

(***************************************************************************)
(* Properties of the operator path                                         *)
(***************************************************************************)
\* chat() has handled a request; req, events and response describe it
Handled == requests > 0

\* the positions in events of the calls of the given operations
CallsOf(ops) == {k \in 1..Len(events) : events[k].op \in ops}

\* the operator was asked before position k and answered yes
ConfirmedBefore(k) ==
    \E j \in 1..(k - 1) : events[j].op = "confirm" /\ Lower(Strip(events[j].arg)) = "yes"

\* the capability returned a failure: an error dict, or an error message
Failed(result) ==
    \/ result.kind = "dict" /\ result.status # "success"
    \/ result.kind = "str" /\ Contains(result.msg, "Error")

\* the actions that act on an instance that exists
TargetTools ==
    { "start_instances", "stop_instances", "reboot_instances",
      "terminate_resource", "resize_instance" }

\* the request itself names a target: an ID or a name, given by the model or
\* found in the text
HasLocalTarget == Truthy(Get(req.local, "instance_id")) \/ Truthy(Get(req.local, "name"))

\* the identifier arguments that hold what the context held before the request
\* although the request itself did not give that value
InjectedKeys ==
    {k \in DOMAIN req.before :
        /\ Truthy(req.before[k])
        /\ Get(req.args, k) = req.before[k]
        /\ Get(req.local, k) # req.before[k]}

\* C1: on the operator path every provider Stop, Terminate or Resize call comes
\* after the operator was asked to confirm in the same request and answered yes.
C1_CriticalCallsConfirmed ==
    \A k \in CallsOf({"ec2.stop_instances", "ec2.terminate_instances",
                      "ec2.modify_instance_attribute"}) : ConfirmedBefore(k)

\* C2: when the gate asks and the answer is not yes, chat returns the aborted
\* result, call_tool is not invoked and the context is what it was.
C2_RefusalAborts ==
    (Handled /\ req.asked /\ Lower(Strip(req.answer)) # "yes")
        => /\ response.label = "aborted"
           /\ CallsOf({"call_tool"}) = {}
           /\ \A k \in 1..Len(events) : events[k].op \in {"llm.invoke", "confirm"}
           /\ context_memory = req.before

C2_Witness ==
    /\ Handled /\ req.asked /\ req.answer = "y"
    /\ response.label = "aborted"
    /\ Truthy(req.before.instance_id)

\* C3: no create, list or cost action gets an identifier argument from the
\* context, and an identifier comes from the context only for an action on an
\* existing instance whose request gave no target.
C3_InjectionOnlyWithoutTarget ==
    Handled
        => /\ req.tool \in {"create_instance", "create_vpc", "create_subnet",
                            "list_instances", "get_cost"}
                => InjectedKeys = {}
           /\ InjectedKeys # {} => (req.tool \in TargetTools /\ ~HasLocalTarget)

\* C4: after a start, stop or reboot of a resolved instance succeeded, the
\* instance slot of the context holds the ID of that instance.
C4_TargetRemembered ==
    ( /\ Handled
      /\ req.tool \in {"start_instances", "stop_instances", "reboot_instances"}
      /\ response.label = "executed"
      /\ response.result.status = "success" )
        => context_memory.instance_id = response.result.instance_id

\* the provider call that creates the resource of a create action, and the
\* context slot of that kind
CreateCall(tool) ==
    CASE tool = "create_vpc" -> "ec2.create_vpc"
      [] tool = "create_subnet" -> "ec2.create_subnet"
      [] tool = "create_instance" -> "ec2.run_instances"

CreateSlot(tool) ==
    CASE tool = "create_vpc" -> "vpc_id"
      [] tool = "create_subnet" -> "subnet_id"
      [] tool = "create_instance" -> "instance_id"

\* the IDs the provider returned for what the request created
CreatedIds ==
    {events[k].arg : k \in {j \in CallsOf({CreateCall(req.tool)}) : events[j].arg # None}}

\* C5: after a create_vpc, create_subnet or create_instance that succeeded, the
\* context slot of that kind holds the ID of the resource just created and the
\* other slots hold what they held.
C5_CreatedRemembered ==
    ( /\ Handled
      /\ req.tool \in {"create_vpc", "create_subnet", "create_instance"}
      /\ CreatedIds # {} )
        => /\ Truthy(context_memory[CreateSlot(req.tool)])
           /\ CreatedIds = {context_memory[CreateSlot(req.tool)]}
           /\ \A k \in DOMAIN context_memory \ {CreateSlot(req.tool)} :
                 context_memory[k] = req.before[k]

C5_Witness ==
    /\ Handled /\ req.tool = "create_subnet"
    /\ CreatedIds = {SubnetId}
    /\ context_memory.subnet_id = SubnetId
    /\ req.before.vpc_id = VpcId
    /\ req.before.subnet_id = None

\* C6: when the capability fails, or the request ends unrecognized or aborted,
\* every slot of the context holds what it held before the request.
C6_FailureKeepsContext ==
    ( /\ Handled
      /\ \/ response.label \in {"unrecognized", "aborted"}
         \/ response.label = "executed" /\ Failed(response.result) )
        => context_memory = req.before

C6_Witness ==
    /\ Handled /\ response.label = "executed"
    /\ response.result.kind = "dict" /\ response.result.status = "error"
    /\ Truthy(req.before.instance_id)
    /\ context_memory = req.before

\* neither the model's arguments nor the operator's text name a target
NamesNoTarget ==
    ~HasLocalTarget /\ clean_text_for_extraction(Lower(req.user_input)) = ""

\* C7: a start, stop, reboot, terminate or resize whose request names no target,
\* with no instance in the context, ends in an explicit failure and makes no
\* provider call with a missing identifier.
C7_NoTargetIsNotFound ==
    ( /\ Handled
      /\ req.tool \in TargetTools
      /\ response.label = "executed"
      /\ NamesNoTarget
      /\ ~Truthy(req.before.instance_id) )
        => /\ Failed(response.result)
           /\ \A k \in 1..Len(events) : events[k].arg # None

\* the actions the fast path reaches by a cost, metric, topology or list keyword
DiagnosticFastPath ==
    { "analyze_cost_trend", "analyze_resource_usage", "analyze_high_cpu",
      "get_cost", "list_instances", "generate_topology" }

\* C11: a request whose text matches a fast-path predicate for the diagnostic
\* keywords (cost, metric, topology, list) is handled without any call of the
\* external model, from routing through to the response.
C11_FastPathNeverInvokesModel ==
    (Handled /\ rule_based_routing(req.user_input).tool \in DiagnosticFastPath)
        => CallsOf({"llm.invoke"}) = {}

\* the recognized-action set: the keys of call_tool's tool_mapping
RecognizedActions ==
    { "create_vpc", "create_subnet", "create_instance", "list_instances",
      "start_instances", "stop_instances", "reboot_instances", "terminate_resource",
      "create_snapshot", "resize_instance", "get_metric", "get_recent_logs",
      "get_cost", "generate_topology", "execute_aws_action" }

\* C12: when neither the fast path nor the model's output gives an action of the
\* recognized-action set (no action, or a name outside the set), chat returns
\* the unrecognized result, asks for no confirmation and does not call the
\* dispatcher.
C12_UnrecognizedIsRejected ==
    (/\ Handled
     /\ ~Truthy(rule_based_routing(req.user_input).tool)
     /\ req.tool \notin RecognizedActions)
        => /\ response.label = "unrecognized"
           /\ CallsOf({"confirm", "call_tool"}) = {}

\* the model was consulted and its text held an object that parsed, with the
\* action's name under exactly one of the keys action and tool
NamedUnder(key) ==
    /\ Handled
    /\ ~Truthy(rule_based_routing(req.user_input).tool)
    /\ req.raw.parsed
    /\ Truthy(Get(req.raw.data, key))
    /\ \A other \in {"action", "tool"} \ {key} : other \notin DOMAIN req.raw.data

\* C13: when the first brace-delimited substring of the model's text parses, the
\* extractor reads the action's name from the key action or from the key tool:
\* an object that carries the name under only one of the two yields that name.
C13_NameUnderEitherKey ==
    \A key \in {"action", "tool"} : NamedUnder(key) => req.tool = req.raw.data[key]

\* chat() dispatched a resize request to call_tool
ResizeDispatched ==
    Handled /\ req.tool = "resize_instance" /\ response.label = "executed"

\* the message that names the precondition of a resize
MustBeStopped == "Error : Instance must be stopped to resize"

\* C23: a resize request whose target's current state is not "stopped" is
\* rejected with a validation error that names the violated precondition, and
\* the provider's instance-type modification call is not made for it: the
\* modification is only ever called on an instance that is stopped, and a
\* resize whose target was resolved and that made no modification call returns
\* the "must be stopped" message.
C23_ResizeNeedsStopped ==
    ResizeDispatched =>
        /\ \A k \in CallsOf({"ec2.modify_instance_attribute"}) :
              instances[events[k].arg].state = "stopped"
        /\ (/\ response.result.kind = "str"
            /\ CallsOf({"ec2.modify_instance_attribute"}) = {})
              => response.result.msg = MustBeStopped
        /\ (\A i \in DOMAIN instances : instances[i].state # "stopped")
              => CallsOf({"ec2.modify_instance_attribute"}) = {}

\* a confirmed resize of the running instance AIOpsmake was rejected
C23_Witness ==
    /\ ResizeDispatched
    /\ instances[IdOrder[1]].state = "running"
    /\ Get(req.args, "instance_id") = "aiopsmake"
    /\ response.result.msg = MustBeStopped
    /\ CallsOf({"confirm"}) # {}

\* the response chat() returned holds the identifier: the result chat() prints
\* names it
ResponseNames(id) ==
    /\ response.label = "executed"
    /\ response.result.instance_id = id \/ response.result.resource_id = id

\* C24: every operator response for a critical action (stop, terminate, resize)
\* that was dispatched contains the resolved concrete resource identifier that
\* the provider call acted on.
C24_ResponseNamesResolvedId ==
    Handled =>
        \A k \in CallsOf({"ec2.stop_instances", "ec2.terminate_instances",
                          "ec2.modify_instance_attribute"}) :
            ResponseNames(events[k].arg)

\* C26: when name-to-ID resolution of the target fails for a start, stop,
\* reboot, terminate or resize request, no provider call is made with the
\* unresolved free-text identifier: every identifier such a request hands to a
\* provider call that changes an instance has the shape of a provider ID.
C26_UnresolvedNeverReachesProvider ==
    (Handled /\ req.tool \in TargetTools) =>
        \A k \in CallsOf({"ec2.start_instances", "ec2.stop_instances",
                          "ec2.reboot_instances", "ec2.terminate_instances",
                          "ec2.modify_instance_attribute"}) :
            events[k].arg # None => IsIdShaped(events[k].arg)

\* _finalize_args ran for the request
Finalized == Handled /\ response.label \in {"executed", "aborted"}

\* the token is no part of the name or of the target identifier of the request
NotInTarget(token) ==
    /\ Truthy(Get(req.args, "name")) => ~Contains(Lower(req.args.name), token)
    /\ Truthy(Get(req.args, "instance_id")) => ~Contains(Lower(req.args.instance_id), token)

\* C27: when the user text contains an instance-size-shaped token (such as
\* t2.nano), normalization sets the size argument and the token never becomes
\* part of the name or target-identifier candidate derived from the remaining
\* free text.
C27_SizeTokenNotInName ==
    Finalized =>
        \A token \in {INSTANCE_TYPE_PATTERN(Lower(req.user_input))} :
            token # None =>
                /\ Truthy(Get(req.args, "instance_type"))
                /\ NotInTarget(token)

\* the dispatcher returned an error result: an error dict, or an error message
\* of a capability
ErrorResult == Failed(response.result)

\* C30: chat labels a response as an execution success ("[Execution Success]",
\* the label executed) only when the dispatched capability actually succeeded:
\* whenever the dispatcher returns an error result the response is not prefixed
\* as a success.
C30_SuccessOnlyWhenSucceeded ==
    (Handled /\ response.label = "executed") => ~ErrorResult

(***************************************************************************)
(* MonitorAgent: the remediation loop (agent/monitor.py) and its notifier  *)
(* (Utils/slack.py)                                                        *)
(***************************************************************************)
\* str.upper() on one character
UpperChar(c) ==
    CASE c = "a" -> "A" [] c = "b" -> "B" [] c = "c" -> "C" [] c = "d" -> "D"
      [] c = "e" -> "E" [] c = "f" -> "F" [] c = "g" -> "G" [] c = "h" -> "H"
      [] c = "i" -> "I" [] c = "j" -> "J" [] c = "k" -> "K" [] c = "l" -> "L"
      [] c = "m" -> "M" [] c = "n" -> "N" [] c = "o" -> "O" [] c = "p" -> "P"
      [] c = "q" -> "Q" [] c = "r" -> "R" [] c = "s" -> "S" [] c = "t" -> "T"
      [] c = "u" -> "U" [] c = "v" -> "V" [] c = "w" -> "W" [] c = "x" -> "X"
      [] c = "y" -> "Y" [] c = "z" -> "Z" [] OTHER -> c

RECURSIVE Upper(_)
\* str.upper()
Upper(s) ==
    IF Len(s) = 0 THEN "" ELSE UpperChar(CharAt(s, 1)) \o Upper(SubSeq(s, 2, Len(s)))

\* _extract_action_from_text once the text is in upper case: the negation
\* guard, then the first action of action_keywords with a keyword in the text
action_from_upper(text) ==
    IF /\ AnyIn(text, {"NOT", "SHOULD NOT", "DONT", "CANNOT", "DO NOT"})
       /\ Contains(text, "START")
    THEN None
    ELSE IF AnyIn(text, {"START", "BEGIN", "BOOT", "LAUNCH"}) THEN "START_INSTANCE"
    ELSE IF AnyIn(text, {"REBOOT", "RESTART", "RESTARTING"}) THEN "REBOOT_INSTANCE"
    ELSE IF AnyIn(text, {"SCALE", "UPGRADE", "INCREASE", "RESIZE"}) THEN "ADVISE_SCALE_UP"
    ELSE IF AnyIn(text, {"CHECK", "INVESTIGATE", "REVIEW", "MANUAL"}) THEN "MANUAL_CHECK"
    ELSE None

\* text = raw_response.upper(), computed once, then the scan
extract_action_from_text(raw_response) ==
    CHOOSE action \in {action_from_upper(text) : text \in {Upper(raw_response)}} : TRUE

\* what the collaborators of _analyze_with_llm give for one incident: the
\* retriever or the model raises (fails), or the model returns text, whose
\* first-to-last-brace substring json.loads parses to data or rejects
Consulted(fails, text, parsed, data) ==
    [fails |-> fails, text |-> text, parsed |-> parsed, data |-> data]

\* (action, root_cause, reason) as _analyze_with_llm returns it, with its calls
Analysis(action, root_cause, reason, calls) ==
    [action |-> action, root_cause |-> root_cause, reason |-> reason, calls |-> calls]

\* _analyze_with_llm once the text analysis has given action (or None)
text_analysis(action, name) ==
    IF Truthy(action)
    THEN Analysis(action, "AI Text Analyzed (JSON Format Error)", "Detect keywords in text",
                  <<Ev("sop_manager.search_guideline", name), Ev("llm.invoke", name)>>)
    ELSE Analysis(None, None, None,
                  <<Ev("sop_manager.search_guideline", name), Ev("llm.invoke", name)>>)

analyze_with_llm(name, trigger, consulted) ==
    IF consulted.fails = "retriever"
    THEN Analysis(None, None, None, <<Ev("sop_manager.search_guideline", name)>>)
    ELSE IF consulted.fails = "model"
    THEN Analysis(None, None, None,
                  <<Ev("sop_manager.search_guideline", name), Ev("llm.invoke", name)>>)
    ELSE IF consulted.parsed
    THEN Analysis(Get(consulted.data, "action"), Get(consulted.data, "root_cause"),
                  Get(consulted.data, "reason"),
                  <<Ev("sop_manager.search_guideline", name), Ev("llm.invoke", name)>>)
    ELSE CHOOSE analysis \in
             {text_analysis(action, name) :
                 action \in {extract_action_from_text(consulted.text)}} : TRUE

\* SlackNotifier.send: without a webhook a printed line; with one, a post whose
\* failure (delivered false: a status other than 200, or an exception) is printed
send(title, webhook_url, delivered) ==
    IF ~webhook_url THEN <<Ev("slack.send", title), Ev("print", "[Slack Skip] URL not set")>>
    ELSE <<Ev("slack.send", title), Ev("requests.post", title)>>
             \o (IF delivered THEN <<>> ELSE <<Ev("print", "Slack failure")>>)

\* _execute_action with a branch that stops the instance for STOP_INSTANCE
execute_action_with_stop(action, instance_id, inv, net, up, accept) ==
    IF action = "START_INSTANCE"
    THEN call_tool("execute_aws_action",
                   [action_name |-> "start_instances", params |-> instance_id],
                   inv, net, up, accept)
    ELSE IF action = "REBOOT_INSTANCE"
    THEN call_tool("execute_aws_action",
                   [action_name |-> "reboot_instances", params |-> instance_id],
                   inv, net, up, accept)
    ELSE IF action = "STOP_INSTANCE"
    THEN call_tool("execute_aws_action",
                   [action_name |-> "stop_instances", params |-> instance_id],
                   inv, net, up, accept)
    ELSE Done(NoResult, <<>>, inv, net)

\* _execute_action with the reboot as the branch of every other action
execute_action_default_reboot(action, instance_id, inv, net, up, accept) ==
    IF action = "START_INSTANCE"
    THEN call_tool("execute_aws_action",
                   [action_name |-> "start_instances", params |-> instance_id],
                   inv, net, up, accept)
    ELSE call_tool("execute_aws_action",
                   [action_name |-> "reboot_instances", params |-> instance_id],
                   inv, net, up, accept)

\* _execute_action: the capability call, if the action has one
execute_action(action, instance_id, inv, net, up, accept) ==
    IF action = "START_INSTANCE"
    THEN call_tool("execute_aws_action",
                   [action_name |-> "start_instances", params |-> instance_id],
                   inv, net, up, accept)
    ELSE IF action = "REBOOT_INSTANCE"
    THEN call_tool("execute_aws_action",
                   [action_name |-> "reboot_instances", params |-> instance_id],
                   inv, net, up, accept)
    ELSE Done(NoResult, <<>>, inv, net)

\* a handled incident: what _handle_incident was called with, what the
\* collaborators gave, the action decided, and every call made for it, in order
Incident(tier, instance_id, name, consulted, action, calls) ==
    [tier |-> tier, instance_id |-> instance_id, name |-> name,
     consulted |-> consulted, action |-> action, calls |-> calls]

\* what _handle_incident did: the incident, and the provider's inventory after
Handling(incident, inv) == [incident |-> incident, inv |-> inv]

\* _handle_incident from the return of _execute_action (executed) on
handle_executed(tier, instance_id, name, consulted, analysis, executed, webhook_url, delivered) ==
    Handling(Incident(tier, instance_id, name, consulted, analysis.action,
                      <<Ev("call_tool", "get_recent_logs")>> \o analysis.calls
                          \o send("incident detected", webhook_url, delivered)
                          \o (IF analysis.action \in {"START_INSTANCE", "REBOOT_INSTANCE"}
                              THEN <<Ev("call_tool", "execute_aws_action")>>
                              ELSE <<>>)
                          \o executed.calls
                          \o send("action completed", webhook_url, delivered)),
             executed.inv)

\* _handle_incident with MANUAL_CHECK in the place of a missing decision
handle_analyzed_default(tier, instance_id, name, consulted, analysis, webhook_url, delivered, inv, net, up, accept) ==
    IF ~Truthy(analysis.action)
    THEN handle_executed(tier, instance_id, name, consulted,
                         Analysis("MANUAL_CHECK", None, None, analysis.calls),
                         execute_action("MANUAL_CHECK", instance_id, inv, net, up, accept),
                         webhook_url, delivered)
    ELSE handle_executed(tier, instance_id, name, consulted, analysis,
                         execute_action(analysis.action, instance_id, inv, net, up, accept),
                         webhook_url, delivered)

\* _handle_incident from the return of _analyze_with_llm (analysis) on
handle_analyzed(tier, instance_id, name, consulted, analysis, webhook_url, delivered, inv, net, up, accept) ==
    IF ~Truthy(analysis.action)
    THEN Handling(Incident(tier, instance_id, name, consulted, None,
                           <<Ev("call_tool", "get_recent_logs")>> \o analysis.calls),
                  inv)
    ELSE handle_executed(tier, instance_id, name, consulted, analysis,
                         execute_action(analysis.action, instance_id, inv, net, up, accept),
                         webhook_url, delivered)

handle_incident(tier, instance_id, name, trigger, consulted, webhook_url, delivered, inv, net, up, accept) ==
    CHOOSE handling \in
        {handle_analyzed(tier, instance_id, name, consulted, analysis,
                         webhook_url, delivered, inv, net, up, accept) :
            analysis \in {analyze_with_llm(name, trigger, consulted)}} : TRUE

\* the utilization above which a running instance is an incident: 80.0
HighCpu == 8000

\* what _run_scan makes of one line: whether it is a row (found), and if the
\* row is an incident its tier and trigger
Row(found, tier, instance_id, name, state, cpu_val, trigger) ==
    [found |-> found, incident |-> trigger # None, tier |-> tier,
     instance_id |-> instance_id, name |-> name, state |-> state,
     cpu_val |-> cpu_val, trigger |-> trigger]

NoRow == Row(FALSE, 0, None, None, None, 0, None)

\* the threshold test with >= for >
classify_inclusive(instance_id, name, state, cpu_val) ==
    IF state = "stopped"
    THEN Row(TRUE, 0, instance_id, name, state, cpu_val, "Stopped (" \o state \o ")")
    ELSE IF state = "running" /\ cpu_val >= HighCpu
    THEN Row(TRUE, 1, instance_id, name, state, cpu_val,
             "High CPU (" \o FloatStr(cpu_val) \o "%)")
    ELSE Row(TRUE, 0, instance_id, name, state, cpu_val, None)

\* the threshold test on the parsed values
classify(instance_id, name, state, cpu_val) ==
    IF state = "stopped"
    THEN Row(TRUE, 0, instance_id, name, state, cpu_val, "Stopped (" \o state \o ")")
    ELSE IF state = "running" /\ cpu_val > HighCpu
    THEN Row(TRUE, 1, instance_id, name, state, cpu_val,
             "High CPU (" \o FloatStr(cpu_val) \o "%)")
    ELSE Row(TRUE, 0, instance_id, name, state, cpu_val, None)

\* the body of _run_scan's loop from the four matches to the threshold test
scan_matched(inst_id_match, found_name, found_state, cpu_val) ==
    IF inst_id_match = None \/ found_name = None \/ found_state = None THEN NoRow
    ELSE classify(inst_id_match, Strip(found_name), found_state, cpu_val)

\* the body of _run_scan's loop up to the threshold test
scan_line(line) ==
    IF ~Contains(line, "ID:") THEN NoRow
    ELSE scan_matched(id_match(line), name_match(line), state_match(line),
                      parsed_cpu(line))

\* _run_scan returns before its loop: the listing is empty or holds one of the
\* two phrases
screened(lines) ==
    \/ lines = <<>>
    \/ \E k \in 1..Len(lines) :
          Contains(lines[k], "No instances") \/ Contains(lines[k], "Error")

(***************************************************************************)
(* The remediation loop: passes of _run_scan, one line after the other     *)
(***************************************************************************)
\* how many instances the monitored inventory holds
MaxRows == 2

\* how many passes the loop makes
MaxScans == 2

MonitorIds == {IdOrder[k] : k \in 1..MaxRows}

\* the Name tags of the monitored instances
MonitorNames == {"web", "db.primary", "ErrorLogger"}

MonitorStates == {"running", "stopped", "pending"}

\* what CloudWatch reports for a running monitored instance: 79.9, 80.0 or 81.0
\* (it has no datapoint for an instance that is not running)
MonitorReadings == {7990, 8000, 8100}

\* the model's text holds an object that parses to data
Object(text, data) == Consulted("", text, TRUE, data)

\* the model's text holds no object that parses
Prose(text) == Consulted("", text, FALSE, EmptyDict)

\* what the retriever and the model give for an incident
Consultations ==
    { Consulted("retriever", "", FALSE, EmptyDict),
      Consulted("model", "", FALSE, EmptyDict),
      Object("{\"action\":\"MANUAL_CHECK\",\"root_cause\":\"x\",\"reason\":\"y\"}",
             [action |-> "MANUAL_CHECK", root_cause |-> "x", reason |-> "y"]),
      Object("{\"action\":\"START_INSTANCE\",\"root_cause\":\"x\",\"reason\":\"y\"}",
             [action |-> "START_INSTANCE", root_cause |-> "x", reason |-> "y"]),
      Object("{\"action\":\"REBOOT_INSTANCE\",\"root_cause\":\"x\",\"reason\":\"y\"}",
             [action |-> "REBOOT_INSTANCE", root_cause |-> "x", reason |-> "y"]),
      Object("{\"action\":\"ADVISE_SCALE_UP\",\"root_cause\":\"x\",\"reason\":\"y\"}",
             [action |-> "ADVISE_SCALE_UP", root_cause |-> "x", reason |-> "y"]),
      Object("{\"action\":\"STOP_INSTANCE\",\"root_cause\":\"x\",\"reason\":\"y\"}",
             [action |-> "STOP_INSTANCE", root_cause |-> "x", reason |-> "y"]),
      Object("{\"action\":\"START_INSTANCE\",\"root_cause\":\"x\",\"reason\":\"do not start before the disk check\"}",
             [action |-> "START_INSTANCE", root_cause |-> "x",
              reason |-> "do not start before the disk check"]),
      Object("Do Not Start it. {\"action\":\"START_INSTANCE\",\"root_cause\":\"x\",\"reason\":\"y\"}",
             [action |-> "START_INSTANCE", root_cause |-> "x", reason |-> "y"]),
      Object("{\"tool\":\"START_INSTANCE\",\"root_cause\":\"x\",\"reason\":\"y\"}",
             [tool |-> "START_INSTANCE", root_cause |-> "x", reason |-> "y"]),
      Object("{\"action\":null,\"root_cause\":\"x\",\"reason\":\"y\"}",
             [action |-> None, root_cause |-> "x", reason |-> "y"]),
      Prose("Please do not start the instance."),
      Prose("I would reboot the instance."),
      Prose("Investigate manually."),
      Prose("Upgrade to a larger type."),
      Prose("Everything looks fine."),
      Prose("Terminate the instance."),
      Prose("{action: REBOOT_INSTANCE}") }

InitMonitor ==
    /\ instances \in [MonitorIds -> [name : MonitorNames, state : MonitorStates]]
    /\ cpu \in [MonitorIds -> MonitorReadings \cup {0}]
    /\ \A i \in MonitorIds : cpu[i] = 0 <=> instances[i].state # "running"
    /\ webhook \in BOOLEAN
    /\ network = [vpcs |-> {}, subnets |-> {}]
    /\ context_memory = NoContext
    /\ req = NoRequest
    /\ events = <<>>
    /\ response = Response("", NoResult)
    /\ requests = 0
    /\ rquery = None
    /\ rup = TRUE
    /\ rresult = NotRun
    /\ scans = 0
    /\ inventory = <<>>
    /\ cursor = 0
    /\ incidents = <<>>
    /\ NoLoop

\* the loop leaves the pass when the incident of the line got no decision
Advance_abort ==
    cursor' = IF /\ cursor < Len(inventory)
                 /\ \/ incidents' = incidents
                    \/ incidents'[Len(incidents')].action # None
              THEN cursor + 1 ELSE 0

\* the loop goes on to the next line, or leaves the pass after the last one
Advance == cursor' = IF cursor < Len(inventory) THEN cursor + 1 ELSE 0

\* a pass of _run_scan begins: the listing is read and screened
RunScan ==
    /\ cursor = 0
    /\ scans < MaxScans
    /\ scans' = scans + 1
    /\ \E up \in BOOLEAN :
          \E lines \in {list_text(instances, cpu, up, "all")} :
              /\ inventory' = lines
              /\ cursor' = IF screened(lines) THEN 0 ELSE 1
    /\ events' = <<Ev("call_tool", "list_instances")>>
    /\ incidents' = <<>>
    /\ UNCHANGED <<instances, chatVars, resolverVars, cpu, webhook, loopVars>>

\* _handle_incident has returned for the line under the cursor
IncidentHandled(handling) ==
    /\ incidents' = Append(incidents, handling.incident)
    /\ events' = events \o handling.incident.calls
    /\ instances' = handling.inv

\* the loop body has parsed the line under the cursor to row
Scanned(row) ==
    IF ~row.incident
    THEN UNCHANGED <<instances, events, incidents>>
    ELSE \E consulted \in Consultations, env \in Environments,
            delivered \in (IF webhook THEN BOOLEAN ELSE {TRUE}) :
            \E handling \in {handle_incident(row.tier, row.instance_id, row.name,
                                              row.trigger, consulted, webhook, delivered,
                                              instances, network, env.up, env.accept)} :
                IncidentHandled(handling)

\* one iteration of _run_scan's loop: the line under the cursor
ScanLine ==
    /\ cursor \in 1..Len(inventory)
    /\ \E row \in {scan_line(inventory[cursor])} : Scanned(row)
    /\ Advance
    /\ UNCHANGED <<chatVars, resolverVars, cpu, webhook, scans, inventory, loopVars>>

NextMonitor == RunScan \/ ScanLine

SpecMonitor == InitMonitor /\ [][NextMonitor]_vars

(***************************************************************************)
(* Properties of the remediation loop                                      *)
(***************************************************************************)
\* the positions in an incident's calls of the given operations
IncidentCalls(incident, ops) ==
    {k \in 1..Len(incident.calls) : incident.calls[k].op \in ops}

\* the provider's calls that change an instance
Mutating ==
    { "ec2.start_instances", "ec2.stop_instances", "ec2.reboot_instances",
      "ec2.terminate_instances", "ec2.modify_instance_attribute", "ec2.run_instances" }

\* the model answered the incident with text (neither collaborator raised)
Answered(incident) == incident.consulted.fails = ""

\* C14: for every decision text that contains "do not start" (in any letter
\* case, anywhere, inside or outside an object), the decision obtained from it
\* is never Start and the start capability is never dispatched for that incident.
C14_DoNotStartNeverStarts ==
    \A k \in 1..Len(incidents) :
        (/\ Answered(incidents[k])
         /\ Contains(Lower(incidents[k].consulted.text), "do not start"))
            => /\ incidents[k].action # "START_INSTANCE"
               /\ IncidentCalls(incidents[k], {"ec2.start_instances"}) = {}

\* the loop is at a line that it parses as a row: ID, name and state all found
AtRow ==
    /\ cursor \in 1..Len(inventory)
    /\ scan_line(inventory[cursor]).found

\* the step adds one incident of the given tier for the instance
Raises(tier, instance_id) ==
    /\ Len(incidents') = Len(incidents) + 1
    /\ incidents'[Len(incidents')].tier = tier
    /\ incidents'[Len(incidents')].instance_id = instance_id

\* C15: scan classification. A row is a Critical incident exactly when its state
\* is stopped, a Warning incident exactly when its state is running and its
\* utilization is strictly above 80 (81.0 is, 79.9 and 80.0 are not); any other
\* row produces no incident. The row's state and utilization are the provider's
\* for the instance the line lists (line k lists the k-th instance).
C15_ScanClassification ==
    [][AtRow =>
          IF instances[IdOrder[cursor]].state = "stopped"
          THEN Raises(0, IdOrder[cursor])
          ELSE IF instances[IdOrder[cursor]].state = "running"
                  /\ cpu[IdOrder[cursor]] > 8000
          THEN Raises(1, IdOrder[cursor])
          ELSE incidents' = incidents]_vars

\* a pass is over in which a running instance at 81.0 was a Warning incident,
\* and a running instance at 80.0 or 79.9 was a row and no incident
C15_Witness ==
    /\ cursor = 0 /\ scans > 0
    /\ \E k \in 1..Len(incidents) :
          incidents[k].tier = 1 /\ cpu[incidents[k].instance_id] = 8100
    /\ \E i \in MonitorIds :
          /\ instances[i].state = "running" /\ cpu[i] \in {7990, 8000}
          /\ \A k \in 1..Len(incidents) : incidents[k].instance_id # i
          /\ \E j \in 1..Len(inventory) :
                scan_line(inventory[j]).found /\ scan_line(inventory[j]).instance_id = i

\* a pass of _run_scan is over
PassOver == cursor = 0 /\ scans > 0

\* the listing the pass read shows the instance in the given state
ListedAs(instance_id, state) ==
    \E j \in 1..Len(inventory) :
        /\ StartsWith(inventory[j], "ID: " \o instance_id \o " | ")
        /\ Contains(inventory[j], " | State: " \o state \o " | ")

\* the incidents of the pass for the instance
IncidentsOf(instance_id) ==
    {k \in 1..Len(incidents) : incidents[k].instance_id = instance_id}

\* C16: in every pass, each row of the listing whose state is stopped produces
\* exactly one Critical incident, with exactly one call of the guideline
\* retriever and (unless the retriever raised) exactly one call of the model,
\* whatever the instance's name and whatever the other rows hold.
C16_StoppedRowHandledOnce ==
    PassOver =>
        \A i \in MonitorIds :
            ListedAs(i, "stopped") =>
                /\ Cardinality(IncidentsOf(i)) = 1
                /\ \A k \in IncidentsOf(i) :
                      /\ incidents[k].tier = 0
                      /\ Cardinality(IncidentCalls(incidents[k],
                                         {"sop_manager.search_guideline"})) = 1
                      /\ incidents[k].consulted.fails # "retriever"
                            => Cardinality(IncidentCalls(incidents[k], {"llm.invoke"})) = 1

\* the decision text of the scenario
ManualCheckText == "{\"action\":\"MANUAL_CHECK\",\"root_cause\":\"x\",\"reason\":\"y\"}"

\* the incidents of the pass that the model answered with the scenario's text
ManualCheckIncidents ==
    {k \in 1..Len(incidents) :
        Answered(incidents[k]) /\ incidents[k].consulted.text = ManualCheckText}

\* C17 as stated: for the decision text
\* {"action":"MANUAL_CHECK","root_cause":"x","reason":"y"}, handling the incident
\* dispatches zero cloud-mutating calls and sends exactly one notification.
C17_ManualCheckOneNotification ==
    \A k \in ManualCheckIncidents :
        /\ IncidentCalls(incidents[k], Mutating) = {}
        /\ Cardinality(IncidentCalls(incidents[k], {"slack.send"})) = 1

\* C17 as amended: for that decision text, handling the incident dispatches zero
\* cloud-mutating calls (no capability is called after the logs are read) and
\* sends exactly two notifications, the detection and then the outcome.
C17_ManualCheckNotifiesTwice ==
    \A k \in ManualCheckIncidents :
        /\ incidents[k].action = "MANUAL_CHECK"
        /\ IncidentCalls(incidents[k], Mutating) = {}
        /\ IncidentCalls(incidents[k], {"call_tool"}) = {1}
        /\ \E d, o \in 1..Len(incidents[k].calls) :
              /\ d < o
              /\ IncidentCalls(incidents[k], {"slack.send"}) = {d, o}
              /\ incidents[k].calls[d].arg = "incident detected"
              /\ incidents[k].calls[o].arg = "action completed"

\* an incident was answered with the scenario's text and handled
C17_Witness == ManualCheckIncidents # {}

\* the positions in an incident's calls of the capability calls made after the
\* logs were read
Dispatched(incident) ==
    {k \in 1..Len(incident.calls) :
        incident.calls[k].op = "call_tool" /\ incident.calls[k].arg # "get_recent_logs"}

\* C18: whatever text the model returns, the loop never invokes Stop, Terminate
\* or Resize: its only cloud-mutating calls are Start (for the decision
\* START_INSTANCE) and Reboot (for REBOOT_INSTANCE) on the instance of the
\* incident being handled, and ADVISE_SCALE_UP, MANUAL_CHECK and any unknown
\* action name cause no capability call and no cloud-mutating call.
C18_OnlyStartAndReboot ==
    /\ \A e \in 1..Len(events) :
          events[e].op \in Mutating
              => events[e].op \in {"ec2.start_instances", "ec2.reboot_instances"}
    /\ \A k \in 1..Len(incidents) :
          /\ \A c \in IncidentCalls(incidents[k], Mutating) :
                /\ incidents[k].calls[c].arg = incidents[k].instance_id
                /\ \/ /\ incidents[k].calls[c].op = "ec2.start_instances"
                      /\ incidents[k].action = "START_INSTANCE"
                   \/ /\ incidents[k].calls[c].op = "ec2.reboot_instances"
                      /\ incidents[k].action = "REBOOT_INSTANCE"
          /\ incidents[k].action \notin {"START_INSTANCE", "REBOOT_INSTANCE"}
                => /\ IncidentCalls(incidents[k], Mutating) = {}
                   /\ Dispatched(incidents[k]) = {}

\* in one pass the decision START_INSTANCE started the incident's instance, and
\* the decision STOP_INSTANCE for another incident went through _execute_action
\* (its outcome was sent)
C18_Witness ==
    /\ \E k \in 1..Len(incidents) :
          /\ incidents[k].action = "START_INSTANCE"
          /\ \E c \in IncidentCalls(incidents[k], {"ec2.start_instances"}) :
                incidents[k].calls[c].arg = incidents[k].instance_id
    /\ \E k \in 1..Len(incidents) :
          /\ incidents[k].action = "STOP_INSTANCE"
          /\ \E c \in IncidentCalls(incidents[k], {"slack.send"}) :
                incidents[k].calls[c].arg = "action completed"

\* the collaborators gave no decision: the retriever or the model call raised,
\* or the object that parsed has no action (absent or null), or no object
\* parsed and the keyword scan of the text found no action
NoDecision(consulted) ==
    \/ consulted.fails # ""
    \/ consulted.parsed /\ ~Truthy(Get(consulted.data, "action"))
    \/ ~consulted.parsed /\ extract_action_from_text(consulted.text) = None

\* C19: when the model call fails, or the decision text yields no action under
\* any parsing strategy, or the decision is None, the loop stops handling that
\* incident: no action is substituted, and nothing is called for the incident
\* after the analysis (no capability call, no cloud-mutating call).
C19_NoDecisionStops ==
    \A k \in 1..Len(incidents) :
        NoDecision(incidents[k].consulted)
            => /\ incidents[k].action = None
               /\ Dispatched(incidents[k]) = {}
               /\ IncidentCalls(incidents[k], Mutating) = {}
               /\ incidents[k].calls[Len(incidents[k].calls)].op
                     \in {"sop_manager.search_guideline", "llm.invoke"}

\* in one pass the model call raised for one incident and the model answered
\* another with a text that holds no object and no keyword; both were dropped
C19_Witness ==
    /\ \E k \in 1..Len(incidents) :
          incidents[k].consulted.fails = "model" /\ incidents[k].action = None
    /\ \E k \in 1..Len(incidents) :
          /\ incidents[k].consulted.text = "Everything looks fine."
          /\ incidents[k].action = None

\* the notification of the given title was sent for the incident
Sent(incident, title) ==
    \E c \in IncidentCalls(incident, {"slack.send"}) : incident.calls[c].arg = title

\* C20: every incident detected in a scan is sent to the notifier, including an
\* incident for which the decision is None or unparseable, and every executed
\* action's outcome is sent to the notifier; with no webhook configured each
\* send is a local log line (no post).
C20_EveryIncidentNotified ==
    \A k \in 1..Len(incidents) :
        /\ Sent(incidents[k], "incident detected")
        /\ Dispatched(incidents[k]) # {} => Sent(incidents[k], "action completed")
        /\ ~webhook =>
              /\ IncidentCalls(incidents[k], {"requests.post"}) = {}
              /\ \A c \in IncidentCalls(incidents[k], {"slack.send"}) :
                    /\ c < Len(incidents[k].calls)
                    /\ incidents[k].calls[c + 1] = Ev("print", "[Slack Skip] URL not set")

\* the incident of the row was handled: its logs were asked for and its
\* guidance searched
HandledRow(row) ==
    \E k \in 1..Len(incidents) :
        /\ incidents[k].instance_id = row.instance_id
        /\ incidents[k].tier = row.tier
        /\ incidents[k].calls[1] = Ev("call_tool", "get_recent_logs")
        /\ incidents[k].calls[2].op = "sop_manager.search_guideline"

\* something failed while the incident was handled: the retriever or the model
\* raised, no decision came out of the text, the provider refused the call, or
\* the notification was not delivered
HandlingFailed(incident) ==
    \/ NoDecision(incident.consulted)
    \/ \E c \in 1..Len(incident.calls) : incident.calls[c] = Ev("print", "Slack failure")
    \/ /\ IncidentCalls(incident, {"ec2.start_instances"}) # {}
       /\ instances[incident.instance_id].state = "stopped"

\* C21: within one scan, a failure while handling one incident (log fetch,
\* guideline retrieval, model call, decision parsing, dispatch or notification)
\* never prevents a later incident row of the same scan from being classified
\* and handled: when the pass is over, every line that the loop classifies as
\* an incident has been handled (its logs were asked for and its guidance
\* searched), whatever happened to the incidents before it.
C21_FailureDoesNotAbortScan ==
    (PassOver /\ ~screened(inventory)) =>
        \A j \in 1..Len(inventory) :
            \A row \in {scan_line(inventory[j])} : row.incident => HandledRow(row)

\* a pass is over in which the handling of the first incident failed and the
\* second incident was handled to the end
C21_Witness ==
    /\ PassOver
    /\ Len(incidents) = 2
    /\ HandlingFailed(incidents[1])
    /\ incidents[2].action = "REBOOT_INSTANCE"
    /\ IncidentCalls(incidents[2], {"ec2.reboot_instances"}) # {}
    /\ Sent(incidents[2], "action completed")

\* the words of the text in upper case, without its punctuation
UpperWords(text) == Split(RemoveChars(Upper(text), ".,:{}\"'"))

\* the text holds no negation word, and REBOOT, RESTART or RESTARTING is the
\* only action keyword among its words
OnlyRebootKeyword(words) ==
    /\ \E k \in 1..Len(words) : words[k] \in {"REBOOT", "RESTART", "RESTARTING"}
    /\ \A k \in 1..Len(words) :
          words[k] \notin {"NOT", "DONT", "CANNOT", "SHOULD", "DO",
                           "START", "BEGIN", "BOOT", "LAUNCH",
                           "SCALE", "UPGRADE", "INCREASE", "RESIZE",
                           "CHECK", "INVESTIGATE", "REVIEW", "MANUAL"}

\* C29: in the decision-mode keyword scan (the text holds no object that
\* parses), a decision text that contains no negation word and whose only
\* action keyword is REBOOT, RESTART or RESTARTING yields the Reboot decision.
C29_RebootKeywordYieldsReboot ==
    \A k \in 1..Len(incidents) :
        (Answered(incidents[k]) /\ ~incidents[k].consulted.parsed) =>
            \A words \in {UpperWords(incidents[k].consulted.text)} :
                OnlyRebootKeyword(words) => incidents[k].action = "REBOOT_INSTANCE"

(***************************************************************************)
(* The monitoring thread (MonitorAgent.start_monitoring) and the operator's *)
(* commands "auto on" and "auto off" (main.py)                             *)
(***************************************************************************)
\* the inventories the monitoring threads scan: none, or the stopped instance web
LoopInventories ==
    { [i \in MonitorIds |-> Absent],
      [i \in MonitorIds |-> IF i = IdOrder[1] THEN [name |-> "web", state |-> "stopped"]
                            ELSE Absent] }

InitLoop ==
    /\ instances \in LoopInventories
    /\ cpu = [i \in MonitorIds |-> 0]
    /\ webhook = FALSE
    /\ network = [vpcs |-> {}, subnets |-> {}]
    /\ context_memory = NoContext
    /\ req = NoRequest
    /\ events = <<>>
    /\ response = Response("", NoResult)
    /\ requests = 0
    /\ rquery = None
    /\ rup = TRUE
    /\ rresult = NotRun
    /\ scans = 0
    /\ inventory = <<>>
    /\ cursor = 0
    /\ incidents = <<>>
    /\ NoLoop

\* how a call of _run_scan ended: the listing was screened (an error or no
\* instance) and the pass returned early, or its rows were handled
scan_outcome(lines) == IF screened(lines) THEN "ended early" ELSE "handled"

\* start_monitoring without the try/except: an exception ends the thread
after_scan_unguarded(pc, outcome) == IF outcome = "raised" THEN "done" ELSE "sleep"

\* the try/except around _run_scan in start_monitoring: whatever the scan did,
\* the thread goes on to the sleep
after_scan(pc, outcome) == "sleep"

\* "auto on": a thread is created unless is_running is set; the thread has not
\* run yet
AutoOn ==
    /\ main = "input"
    /\ command' = "auto on"
    /\ IF ~is_running
       THEN \E t \in Threads :
               /\ threads[t].pc = "idle"
               /\ \A u \in Threads : u < t => threads[u].pc # "idle"
               /\ threads' = [threads EXCEPT ![t].pc = "started"]
               /\ monitoring_thread' = t
       ELSE UNCHANGED <<threads, monitoring_thread>>
    /\ UNCHANGED <<instances, events, chatVars, resolverVars, cpu, monitorVars,
                   is_running, main>>

\* "auto off": stop_monitoring, then the join of the thread created last
AutoOff ==
    /\ main = "input"
    /\ command' = "auto off"
    /\ is_running' = FALSE
    /\ main' = IF monitoring_thread # 0 THEN "join" ELSE "input"
    /\ UNCHANGED <<instances, events, chatVars, resolverVars, cpu, monitorVars,
                   monitoring_thread, threads>>

\* monitoring_thread.join(timeout=3) returns: the thread has ended, or the three
\* seconds are over while it is in a scan or is_running is set again
JoinReturns ==
    /\ main = "join"
    /\ \/ threads[monitoring_thread].pc = "done"
       \/ threads[monitoring_thread].pc = "scan"
       \/ is_running
    /\ main' = "input"
    /\ UNCHANGED <<instances, events, chatVars, resolverVars, cpu, monitorVars,
                   is_running, monitoring_thread, threads, command>>

\* the thread starts running start_monitoring: self.is_running = True
Begin(t) ==
    /\ threads[t].pc = "started"
    /\ is_running' = TRUE
    /\ threads' = [threads EXCEPT ![t].pc = "check"]
    /\ UNCHANGED <<instances, events, chatVars, resolverVars, cpu, monitorVars,
                   monitoring_thread, main, command>>

\* while self.is_running: a tick begins, or the thread ends
While(t) ==
    /\ threads[t].pc = "check"
    /\ is_running => threads[t].ticks < MaxTicks
    /\ threads' = [threads EXCEPT ![t].pc = IF is_running THEN "scan" ELSE "done",
                                  ![t].ticks = IF is_running THEN @ + 1 ELSE @]
    /\ UNCHANGED <<instances, events, chatVars, resolverVars, cpu, monitorVars,
                   is_running, monitoring_thread, main, command>>

\* the tick: _run_scan returns or raises, and the sleep begins
Tick(t) ==
    /\ threads[t].pc = "scan"
    /\ \E outcome \in {"raised"} \cup
                      {scan_outcome(list_text(instances, cpu, up, "all")) : up \in BOOLEAN} :
          threads' = [threads EXCEPT ![t].pc = after_scan(@, outcome),
                                     ![t].outcome = outcome,
                                     ![t].left = interval]
    /\ UNCHANGED <<instances, events, chatVars, resolverVars, cpu, monitorVars,
                   is_running, monitoring_thread, main, command>>

\* one round of the sleep: for _ in range(interval): the check of is_running,
\* then a second of sleep
Sleep(t) ==
    /\ threads[t].pc = "sleep"
    /\ threads' = IF threads[t].left = 0 \/ ~is_running
                  THEN [threads EXCEPT ![t].pc = "check", ![t].left = 0]
                  ELSE [threads EXCEPT ![t].left = @ - 1]
    /\ UNCHANGED <<instances, events, chatVars, resolverVars, cpu, monitorVars,
                   is_running, monitoring_thread, main, command>>

\* a step of the thread
Step(t) == Begin(t) \/ While(t) \/ Tick(t) \/ Sleep(t)

NextLoop == AutoOn \/ AutoOff \/ JoinReturns \/ \E t \in Threads : Step(t)

SpecLoop == InitLoop /\ [][NextLoop]_vars

\* the scheduler lets every thread run
SpecLoopFair == SpecLoop /\ \A t \in Threads : WF_vars(Step(t))

(***************************************************************************)
(* Properties of the monitoring thread                                     *)
(***************************************************************************)
\* the thread begins a tick in this step
BeginsTick(t) == threads[t].pc = "check" /\ threads'[t].pc = "scan"

\* C22: after stop_monitoring has been called ("auto off") and no later start
\* request is issued, no new scan tick begins, for every interleaving of the
\* operator's commands with the loop thread.
C22_NoTickAfterStop ==
    [][(command = "auto off" /\ command' = "auto off")
          => \A t \in Threads : ~BeginsTick(t)]_vars

\* the threads that are inside a call of _run_scan
Scanning == {t \in Threads : threads[t].pc = "scan"}

\* C28: under every sequence and interleaving of "auto on" and "auto off", at
\* most one monitoring thread is executing a scan tick at any time.
C28_OneLoopThread == Cardinality(Scanning) <= 1

\* the last tick of the thread ended early or failed
TickFailed(t) == threads[t].outcome \in {"ended early", "raised"}

\* C25: while the loop is running and no stop has been requested, a tick that
\* ends early or fails (listing error, empty inventory, exception in the scan)
\* never terminates the loop: after every tick of a thread another tick of that
\* thread eventually begins, unless is_running is cleared.
C25_NextTickBegins ==
    \A t \in Threads : \A n \in 1..(MaxTicks - 1) :
        (threads[t].pc = "scan" /\ threads[t].ticks = n)
            ~> (threads[t].ticks = n + 1 \/ ~is_running)

\* a thread is in a tick that began after a tick of its that ended early or raised
C25_Witness ==
    \E t \in Threads :
        threads[t].pc = "scan" /\ threads[t].ticks = 2 /\ TickFailed(t) /\ is_running

(***************************************************************************)
(* The resolver on every inventory and identifier                          *)
(***************************************************************************)
\* the Name tags of the resolver's inventories ("" is an instance without one)
ResolverNames == {"", "web", "web-server"}

ResolverStates == {"running", "pending", "terminated"}

\* the identifiers the resolver is asked for
ResolverQueries ==
    { "web", " W_e-b ", "web-server-production-extra",
      "cache", "i-0a1b2c3d4e5f60001", "  ", None }

ResolverIds == {IdOrder[k] : k \in 1..MaxInstances}

InitResolve ==
    /\ instances \in [ResolverIds -> [name : ResolverNames, state : ResolverStates]]
    /\ context_memory = NoContext
    /\ req = NoRequest
    /\ events = <<>>
    /\ response = Response("", NoResult)
    /\ network = [vpcs |-> {}, subnets |-> {}]
    /\ requests = 0
    /\ rquery \in ResolverQueries
    /\ rup \in BOOLEAN
    /\ rresult = NotRun
    /\ cpu = [i \in ResolverIds |-> 0]
    /\ webhook = FALSE
    /\ scans = 0
    /\ inventory = <<>>
    /\ cursor = 0
    /\ incidents = <<>>
    /\ NoLoop

\* one call of _resolve_id against the inventory
Resolve ==
    /\ rresult = NotRun
    /\ rresult' = resolve_id(rquery, instances, rup)
    /\ UNCHANGED <<instances, events, chatVars, rquery, rup, cpu, monitorVars, loopVars>>

NextResolve == Resolve

SpecResolve == InitResolve /\ [][NextResolve]_vars

(***************************************************************************)
(* Properties of the resolver                                              *)
(***************************************************************************)
\* _resolve_id ran, the provider answered, and the identifier took the name path
ResolvedByName ==
    /\ rresult # NotRun
    /\ rup
    /\ clean_str(rquery).ok
    /\ ~IsIdShaped(Strip(rquery))

\* the instances that are not terminated
Live == {i \in DOMAIN instances : instances[i].state \in SearchStates}

\* the live instances whose display name equals the query
Colliding == {i \in Live : instances[i].name = Strip(rquery)}

\* the live instances the rule of containment accepts for the query
Accepted ==
    LET q == RemoveChars(Lower(Strip(rquery)), " _-")
    IN  {i \in Live :
            /\ instances[i].name # ""
            /\ LET n == RemoveChars(Lower(instances[i].name), " _-")
               IN  Contains(q, n) \/ Contains(n, q)}

\* the failure is one of the two "more than one instance" errors
IsAmbiguous(r) ==
    ~r.ok /\ r.err \in {"Multiple instances use the same name",
                         "Matching Multiple Instances"}

\* C8: a name that two or more live instances carry exactly makes resolve fail
\* with Ambiguous, listing exactly the IDs of the instances of that name.
C8_ExactCollisionListsColliders ==
    (ResolvedByName /\ Cardinality(Colliding) >= 2)
        => (IsAmbiguous(rresult) /\ Range(rresult.ids) = Colliding)

\* the display names of the live instances, sorted
LiveNames ==
    LET HasName(i) == instances[i].name # ""
        named == SelectSeq(Listing(instances, SearchStates, 1), HasName)
    IN  Sorted([k \in 1..Len(named) |-> instances[named[k]].name])

\* C9: an identifier with neither an exact nor a partial match makes resolve fail
\* with NotFound, and the failure carries the sorted display names of all the
\* instances that were candidates (the placeholder entry when none has a name).
C9_NotFoundListsCandidates ==
    (ResolvedByName /\ Colliding = {} /\ Accepted = {})
        => /\ ~rresult.ok
           /\ rresult.err = "No Instances"
           /\ rresult.names = (IF LiveNames = <<>> THEN <<"(none)">> ELSE LiveNames)

\* C10: with no exact match, a candidate is accepted exactly when, hyphens,
\* underscores and spaces removed and both lower-cased, the query contains its
\* name or its name contains the query; one accepted candidate is returned,
\* two or more give Ambiguous (and none gives NotFound).
C10_PartialMatchRule ==
    (ResolvedByName /\ Colliding = {})
        => LET accepted == Accepted
           IN  /\ Cardinality(accepted) = 1
                    => (rresult.ok /\ rresult.id \in accepted)
               /\ Cardinality(accepted) >= 2
                    => (IsAmbiguous(rresult) /\ Range(rresult.ids) = accepted)
               /\ accepted = {} => (~rresult.ok /\ rresult.err = "No Instances")

C10_Witness ==
    /\ ResolvedByName /\ Colliding = {}
    /\ rquery = "web-server-production-extra"
    /\ rresult.ok
    /\ instances[rresult.id].name = "web-server"

====
